---- MODULE Spec2Model ----
(***************************************************************************)
(* A model of TruMetraPla's column resolution (data_loader.py), of the     *)
(* Excel loading step built on it and of the manual column-mapping dialog  *)
(* of the GUI (gui.py).                                                    *)
(*                                                                         *)
(* Python strings are sequences of characters: a character is a one-       *)
(* character TLA+ string, so "Data" is <<"D","a","t","a">>.  Field names,  *)
(* headers, aliases, keywords and error messages are all such sequences,   *)
(* which makes strip, casefold, equality and substring search computable.  *)
(***************************************************************************)
EXTENDS Naturals, Integers, Sequences, FiniteSets, TLC

----------------------------------------------------------------------------
(* Strings                                                                 *)

\* str.strip() removes leading and trailing whitespace.
Whitespace == {" ", "\t"}

UpperChars == <<"A","B","C","D","E","F","G","H","I","J","K","L","M",
                "N","O","P","Q","R","S","T","U","V","W","X","Y","Z","À">>
LowerChars == <<"a","b","c","d","e","f","g","h","i","j","k","l","m",
                "n","o","p","q","r","s","t","u","v","w","x","y","z","à">>

\* str.casefold() on one character of the alphabet used here.
FoldTable ==
    [c \in {UpperChars[i] : i \in 1..Len(UpperChars)} |->
        LowerChars[CHOOSE i \in 1..Len(UpperChars) : UpperChars[i] = c]]

casefold_char(c) == IF c \in DOMAIN FoldTable THEN FoldTable[c] ELSE c

casefold(s) == [i \in 1..Len(s) |-> casefold_char(s[i])]

\* The dotless i (U+0131) is a letter no casefold changes; its upper case is
\* the ASCII "I".  The character is written by its code point.
DotlessI == "U+0131"

RECURSIVE lstrip(_)
lstrip(s) == IF s # <<>> /\ Head(s) \in Whitespace THEN lstrip(Tail(s)) ELSE s

RECURSIVE rstrip(_)
rstrip(s) ==
    IF s # <<>> /\ s[Len(s)] \in Whitespace
    THEN rstrip(SubSeq(s, 1, Len(s) - 1))
    ELSE s

strip(s) == rstrip(lstrip(s))

\* Python's `needle in hay` for strings.
Contains(hay, needle) ==
    \E i \in 0..(Len(hay) - Len(needle)) :
        \A j \in 1..Len(needle) : hay[i + j] = needle[j]

\* The elements of a sequence, as a set.
Range(seq) == {seq[i] : i \in 1..Len(seq)}

----------------------------------------------------------------------------
(* data_loader.py: canonical fields and the alias and keyword tables       *)

date == <<"d","a","t","e">>
employee == <<"e","m","p","l","o","y","e","e">>
process == <<"p","r","o","c","e","s","s">>
quantity == <<"q","u","a","n","t","i","t","y">>
duration_minutes == <<"d","u","r","a","t","i","o","n","_","m","i","n","u","t","e","s">>
machine == <<"m","a","c","h","i","n","e">>
process_type == <<"p","r","o","c","e","s","s","_","t","y","p","e">>

REQUIRED_FIELDS == <<date, employee, process, quantity, duration_minutes>>
OPTIONAL_FIELDS == <<machine, process_type>>
_CANONICAL_FIELDS == REQUIRED_FIELDS \o OPTIONAL_FIELDS

_DEFAULT_COLUMN_ALIASES ==
    (date :> <<
            <<"d","a","t","a">>,                                         \* data
            <<"d","a","t","e">>,                                         \* date
            <<"g","i","o","r","n","o">> >>)                              \* giorno
    @@ (employee :> <<
            <<"d","i","p","e","n","d","e","n","t","e">>,                 \* dipendente
            <<"o","p","e","r","a","t","o","r","e">>,                     \* operatore
            <<"e","m","p","l","o","y","e","e">> >>)                      \* employee
    @@ (process :> <<
            <<"p","r","o","c","e","s","s","o">>,                         \* processo
            <<"f","a","s","e">>,                                         \* fase
            <<"l","i","n","e","a">>,                                     \* linea
            <<"p","r","o","c","e","s","s">> >>)                          \* process
    @@ (quantity :> <<
            <<"q","u","a","n","t","i","t","à">>,                         \* quantità
            <<"p","e","z","z","i">>,                                     \* pezzi
            <<"p","e","z","z","i"," ","p","r","o","d","o","t","t","i">>, \* pezzi prodotti
            <<"q","u","a","n","t","i","t","y">>,                         \* quantity
            <<"p","i","e","c","e","s">> >>)                              \* pieces
    @@ (duration_minutes :> <<
            <<"d","u","r","a","t","a"," ","(","m","i","n",")">>,         \* durata (min)
            <<"d","u","r","a","t","a">>,                                 \* durata
            <<"m","i","n","u","t","i">>,                                 \* minuti
            <<"d","u","r","a","t","i","o","n">>,                         \* duration
            <<"m","i","n","u","t","e","s">> >>)                          \* minutes

_FIELD_KEYWORDS ==
    (date :> <<
            <<"d","a","t","a">>,                                         \* data
            <<"d","a","t","e">>,                                         \* date
            <<"g","i","o","r","n","o">> >>)                              \* giorno
    @@ (employee :> <<
            <<"o","p","e","r","a","t","o","r","e">>,                     \* operatore
            <<"d","i","p","e","n","d","e","n","t","e">>,                 \* dipendente
            <<"a","d","d","e","t","t","o">>,                             \* addetto
            <<"r","e","s","p","o","n","s","a","b","i","l","e">>,         \* responsabile
            <<"w","o","r","k","e","r">>,                                 \* worker
            <<"e","m","p","l","o","y","e","e">> >>)                      \* employee
    @@ (process :> <<
            <<"p","r","o","c","e","s","s","o">>,                         \* processo
            <<"f","a","s","e">>,                                         \* fase
            <<"l","i","n","e","a">>,                                     \* linea
            <<"o","p","e","r","a","z","i","o","n","e">>,                 \* operazione
            <<"p","r","o","c","e","s","s">> >>)                          \* process
    @@ (machine :> <<
            <<"m","a","c","c","h","i","n","a">>,                         \* macchina
            <<"m","a","c","c","h","i","n","a","r","i","o">>,             \* macchinario
            <<"i","m","p","i","a","n","t","o">>,                         \* impianto
            <<"p","o","s","t","a","z","i","o","n","e">>,                 \* postazione
            <<"m","a","c","h","i","n","e">>,                             \* machine
            <<"e","q","u","i","p","m","e","n","t">> >>)                  \* equipment
    @@ (process_type :> <<
            <<"t","i","p","o"," ","p","r","o","c","e","s","s","o">>,     \* tipo processo
            <<"t","i","p","o","l","o","g","i","a">>,                     \* tipologia
            <<"c","a","t","e","g","o","r","i","a">>,                     \* categoria
            <<"c","a","t","e","g","o","r","y">>,                         \* category
            <<"p","r","o","c","e","s","s"," ","t","y","p","e">> >>)      \* process type
    @@ (quantity :> <<
            <<"q","u","a","n","t","i","t","a">>,                         \* quantita
            <<"q","u","a","n","t","i","t","à">>,                         \* quantità
            <<"p","e","z","z","i">>,                                     \* pezzi
            <<"p","i","e","c","e","s">>,                                 \* pieces
            <<"q","u","a","n","t","i","t","y">>,                         \* quantity
            <<"o","u","t","p","u","t">> >>)                              \* output
    @@ (duration_minutes :> <<
            <<"d","u","r","a","t","a">>,                                 \* durata
            <<"m","i","n">>,                                             \* min
            <<"m","i","n","u","t","i">>,                                 \* minuti
            <<"m","i","n","u","t","e","s">>,                             \* minutes
            <<"t","e","m","p","o">> >>)                                  \* tempo

----------------------------------------------------------------------------
(* data_loader.py: _resolve_column_name and suggest_column_mapping         *)

\* dict.get(key, default)
Get(d, key, default) == IF key \in DOMAIN d THEN d[key] ELSE default

\* The dict union `left | right`: a key of both takes the value of right.
DictUnion(left, right) ==
    [key \in DOMAIN left \cup DOMAIN right |->
        IF key \in DOMAIN right THEN right[key] ELSE left[key]]

\* None and the empty dict are both the empty function: the code only tests
\* their truth value (`if column_mapping and ...`, `aliases or {}`).
None == <<>>

_normalize_token(value) == casefold(strip(value))

\* The outcome of a call: a returned column (with the strategy that found
\* it) or a raised ColumnMappingError (with its message).
Return(column, strategy) ==
    [kind |-> "return", value |-> column, via |-> strategy, message |-> <<>>]

Raise(text, strategy) ==
    [kind |-> "raise", value |-> <<>>, via |-> strategy, message |-> text]

explicit_error_message(candidate, field) ==
    <<"L","a"," ","c","o","l","o","n","n","a"," ","'">> \o candidate
    \o <<"'"," ","p","e","r"," ","i","l"," ","c","a","m","p","o"," ","'">> \o field
    \o <<"'"," ","n","o","n"," ","e","s","i","s","t","e"," ","n","e","l"," ","f","i","l","e">>

unresolved_error_message(field) ==
    <<"I","m","p","o","s","s","i","b","i","l","e"," ","i","n","d","i","v","i","d","u","a","r","e"," ",
      "l","a"," ","c","o","l","o","n","n","a"," ","p","e","r"," ","i","l"," ","c","a","m","p","o"," ","'">>
    \o field
    \o <<"'","."," ","S","p","e","c","i","f","i","c","a","r","e"," ","'","c","o","l","u","m","n","_",
         "m","a","p","p","i","n","g","'"," ","o"," ","r","i","n","o","m","i","n","a","r","e"," ","l","e"," ",
         "i","n","t","e","s","t","a","z","i","o","n","i"," ","n","e","l"," ","f","i","l","e"," ",
         "E","x","c","e","l",".">>

\* A variant that keeps the token of a header in the place of the header.
normalized_columns_folded(available_columns) ==
    [token \in {_normalize_token(column) : column \in Range(available_columns)} |->
        token]

\* {_normalize_token(column): column for column in available_columns}: of two
\* columns with the same token the later one stays.
normalized_columns(available_columns) ==
    LET tokens == {_normalize_token(column) : column \in Range(available_columns)}
        last(token) ==
            CHOOSE i \in 1..Len(available_columns) :
                /\ _normalize_token(available_columns[i]) = token
                /\ \A j \in (i + 1)..Len(available_columns) :
                       _normalize_token(available_columns[j]) # token
    IN  [token \in tokens |-> available_columns[last(token)]]

\* The alias loop: the positions of the aliases whose token is a header token.
alias_hits(alias_candidates, columns_by_token) ==
    {i \in 1..Len(alias_candidates) :
        _normalize_token(alias_candidates[i]) \in DOMAIN columns_by_token}

\* A variant whose keyword test wants the whole header to be the keyword.
keyword_in_column_whole(keyword_matches, column) ==
    LET normalized == _normalize_token(column)
    IN  \E k \in 1..Len(keyword_matches) :
            LET keyword_token == _normalize_token(keyword_matches[k])
            IN  keyword_token # <<>> /\ normalized = keyword_token

\* The keyword test of one column: some non-empty keyword token is inside
\* the normalized header.
keyword_in_column(keyword_matches, column) ==
    LET normalized == _normalize_token(column)
    IN  \E k \in 1..Len(keyword_matches) :
            LET keyword_token == _normalize_token(keyword_matches[k])
            IN  keyword_token # <<>> /\ Contains(normalized, keyword_token)

\* The keyword loop: the positions of the columns that pass the keyword test.
keyword_hits(keyword_matches, available_columns) ==
    {i \in 1..Len(available_columns) :
        keyword_in_column(keyword_matches, available_columns[i])}

Min(S) == CHOOSE x \in S : \A y \in S : x <= y

\* A variant that tries the keyword strategy before the alias strategy.
resolve_by_name_keyword_first(field, available_columns, aliases) ==
    LET columns_by_token == normalized_columns(available_columns)
        alias_candidates == Get(aliases, field, <<>>)
        ahits            == alias_hits(alias_candidates, columns_by_token)
        khits            == keyword_hits(Get(_FIELD_KEYWORDS, field, <<>>),
                                         available_columns)
    IN  IF khits # {}
        THEN Return(available_columns[Min(khits)], "keyword")
        ELSE IF ahits # {}
        THEN Return(columns_by_token[_normalize_token(alias_candidates[Min(ahits)])],
                    "alias")
        ELSE Raise(unresolved_error_message(field), "none")

\* A variant whose keyword strategy keeps the last matching column.
resolve_by_name_last_keyword(field, available_columns, aliases) ==
    LET columns_by_token == normalized_columns(available_columns)
        alias_candidates == Get(aliases, field, <<>>)
        ahits            == alias_hits(alias_candidates, columns_by_token)
        khits            == keyword_hits(Get(_FIELD_KEYWORDS, field, <<>>),
                                         available_columns)
    IN  IF ahits # {}
        THEN Return(columns_by_token[_normalize_token(alias_candidates[Min(ahits)])],
                    "alias")
        ELSE IF khits # {}
        THEN Return(available_columns[CHOOSE i \in khits : \A j \in khits : j <= i],
                    "keyword")
        ELSE Raise(unresolved_error_message(field), "none")

\* A variant that falls back to the first column when nothing matches.
resolve_by_name_default_first(field, available_columns, aliases) ==
    LET columns_by_token == normalized_columns(available_columns)
        alias_candidates == Get(aliases, field, <<>>)
        ahits            == alias_hits(alias_candidates, columns_by_token)
        khits            == keyword_hits(Get(_FIELD_KEYWORDS, field, <<>>),
                                         available_columns)
    IN  IF ahits # {}
        THEN Return(columns_by_token[_normalize_token(alias_candidates[Min(ahits)])],
                    "alias")
        ELSE IF khits # {}
        THEN Return(available_columns[Min(khits)], "keyword")
        ELSE IF available_columns # <<>>
        THEN Return(available_columns[1], "keyword")
        ELSE Raise(unresolved_error_message(field), "none")

\* The alias and keyword strategies, tried in this order.
resolve_by_name(field, available_columns, aliases) ==
    LET columns_by_token == normalized_columns(available_columns)
        alias_candidates == Get(aliases, field, <<>>)
        ahits            == alias_hits(alias_candidates, columns_by_token)
        keyword_matches  == Get(_FIELD_KEYWORDS, field, <<>>)
        khits            == keyword_hits(keyword_matches, available_columns)
    IN  IF ahits # {}
        THEN Return(columns_by_token[_normalize_token(alias_candidates[Min(ahits)])],
                    "alias")
        ELSE IF khits # {}
        THEN Return(available_columns[Min(khits)], "keyword")
        ELSE Raise(unresolved_error_message(field), "none")

\* A variant that treats an explicit mapping to an absent column as a hint.
_resolve_column_name_hint(field, available_columns, column_mapping, aliases) ==
    IF /\ column_mapping # None
       /\ field \in DOMAIN column_mapping
       /\ column_mapping[field] \in Range(available_columns)
    THEN Return(column_mapping[field], "explicit")
    ELSE resolve_by_name(field, available_columns, aliases)

_resolve_column_name(field, available_columns, column_mapping, aliases) ==
    IF column_mapping # None /\ field \in DOMAIN column_mapping
    THEN LET candidate == column_mapping[field]
         IN  IF candidate \notin Range(available_columns)
             THEN Raise(explicit_error_message(candidate, field), "explicit")
             ELSE Return(candidate, "explicit")
    ELSE resolve_by_name(field, available_columns, aliases)

\* extra_aliases: the caller's aliases for canonical fields only.
extra_aliases_of(aliases) ==
    [field \in DOMAIN aliases \cap Range(_CANONICAL_FIELDS) |-> aliases[field]]

\* The alias table handed to _resolve_column_name.
merged_aliases(aliases) ==
    DictUnion(_DEFAULT_COLUMN_ALIASES, extra_aliases_of(aliases))

\* The loop over _CANONICAL_FIELDS: per field, the outcome of the call.
resolve_all(available_columns, column_mapping, aliases) ==
    [field \in Range(_CANONICAL_FIELDS) |->
        _resolve_column_name(field, available_columns, column_mapping,
                             merged_aliases(aliases))]

\* resolved: the fields whose call returned, with the column it returned.
resolved_of(outcomes) ==
    [field \in {f \in DOMAIN outcomes : outcomes[f].kind = "return"} |->
        outcomes[field].value]

\* A variant that reports only the fields no strategy matched.
missing_of_unmatched(outcomes) ==
    SelectSeq(_CANONICAL_FIELDS, LAMBDA field : outcomes[field].via = "none")

\* missing: the fields whose call raised ColumnMappingError, in loop order.
missing_of(outcomes) ==
    SelectSeq(_CANONICAL_FIELDS, LAMBDA field : outcomes[field].kind = "raise")

----------------------------------------------------------------------------
(* data_loader.py: load_operations_from_excel                              *)

\* A cell is known by what the conversions make of it: "day" (a date that
\* pd.to_datetime parses and pd.to_numeric rejects), "number", "text" (that
\* neither conversion accepts), "nan" (an empty cell) and "" (the value of an
\* optional column the sheet does not have).
CellKinds == {"day", "number", "text", "nan"}

\* separator.join(items)
RECURSIVE join(_, _)
join(separator, items) ==
    IF items = <<>> THEN <<>>
    ELSE IF Len(items) = 1 THEN items[1]
    ELSE items[1] \o separator \o join(separator, Tail(items))

\* A variant that lists the required fields, whatever is missing.
missing_fields_message_required(missing_fields) ==
    <<"I","m","p","o","s","s","i","b","i","l","e"," ","i","n","d","i","v","i","d","u","a","r","e"," ",
      "t","u","t","t","e"," ","l","e"," ","c","o","l","o","n","n","e"," ",
      "r","i","c","h","i","e","s","t","e","."," ">>
    \o <<"C","a","m","p","i"," ","m","a","n","c","a","n","t","i",":"," ">>
    \o join(<<",", " ">>, REQUIRED_FIELDS)
    \o <<".">>

\* The message of the ColumnMappingError raised when fields are missing.
missing_fields_message(missing_fields) ==
    <<"I","m","p","o","s","s","i","b","i","l","e"," ","i","n","d","i","v","i","d","u","a","r","e"," ",
      "t","u","t","t","e"," ","l","e"," ","c","o","l","o","n","n","e"," ",
      "r","i","c","h","i","e","s","t","e","."," ">>
    \o <<"C","a","m","p","i"," ","m","a","n","c","a","n","t","i",":"," ">>
    \o join(<<",", " ">>, missing_fields)
    \o <<".">>

date_error_message ==
    <<"C","o","l","o","n","n","a"," ","'","d","a","t","e","'"," ","n","o","n"," ",
      "c","o","n","v","e","r","t","i","b","i","l","e"," ","i","n"," ","d","a","t","a">>

numeric_error_message(numeric_field) ==
    <<"C","o","l","o","n","n","a"," ","'">> \o numeric_field
    \o <<"'"," ","n","o","n"," ","c","o","n","v","e","r","t","i","b","i","l","e"," ","i","n"," ",
         "v","a","l","o","r","e"," ","n","u","m","e","r","i","c","o">>

ReturnRecords(records) ==
    [kind |-> "return", error |-> "", message |-> <<>>, records |-> records]

\* An exception leaving load_operations_from_excel; only the message of a
\* ColumnMappingError is modelled.
RaiseError(error, text) ==
    [kind |-> "raise", error |-> error, message |-> text, records |-> <<>>]

\* data_frame.rename(columns={original: field for field, original in
\* resolved_columns.items()}): of two fields resolved to one column the later
\* one, in the order of _CANONICAL_FIELDS, names it.
renamed(names, resolved_columns) ==
    LET fields_of(original) ==
            {i \in 1..Len(_CANONICAL_FIELDS) :
                /\ _CANONICAL_FIELDS[i] \in DOMAIN resolved_columns
                /\ resolved_columns[_CANONICAL_FIELDS[i]] = original}
        last(S) == CHOOSE i \in S : \A j \in S : j <= i
    IN  [i \in 1..Len(names) |->
            IF fields_of(names[i]) # {}
            THEN _CANONICAL_FIELDS[last(fields_of(names[i]))]
            ELSE names[i]]

\* A frame is its column names and its rows, a cell per column and row.
\* The optional fields that are no column become columns of "".
with_optional_columns(frame) ==
    LET absent == SelectSeq(OPTIONAL_FIELDS, LAMBDA f : f \notin Range(frame.names))
    IN  [names |-> frame.names \o absent,
         rows  |-> [r \in 1..Len(frame.rows) |->
                       frame.rows[r] \o [k \in 1..Len(absent) |-> ""]]]

\* The cell of a row in the (first) column of that name.
cell(frame, row, name) ==
    row[Min({i \in 1..Len(frame.names) : frame.names[i] = name})]

_coerce_text(value) == IF value = "nan" THEN "" ELSE value

\* The OperationRecord of a row: the canonical values and the extra columns.
record_of(frame, row) ==
    [values |-> [field \in Range(_CANONICAL_FIELDS) |->
                    IF field \in {date, quantity, duration_minutes}
                    THEN cell(frame, row, field)
                    ELSE _coerce_text(cell(frame, row, field))],
     extra  |-> [name \in Range(frame.names) \ Range(_CANONICAL_FIELDS) |->
                    _coerce_text(cell(frame, row, name))]]

\* Lines 131-174: the conversions, dropna and the records.  A lookup of a
\* column the frame does not have is a KeyError, which the try blocks of the
\* conversions turn into ColumnMappingError and dropna does not.
convert(frame) ==
    LET has(name) == name \in Range(frame.names)
        some(name, kinds) ==
            \E r \in 1..Len(frame.rows) : cell(frame, frame.rows[r], name) \in kinds
    IN  IF ~has(date) \/ some(date, {"text", ""})
        THEN RaiseError("ColumnMappingError", date_error_message)
        ELSE IF ~has(quantity) \/ some(quantity, {"text", "day", ""})
        THEN RaiseError("ColumnMappingError", numeric_error_message(quantity))
        ELSE IF ~has(duration_minutes) \/ some(duration_minutes, {"text", "day", ""})
        THEN RaiseError("ColumnMappingError", numeric_error_message(duration_minutes))
        ELSE IF some(quantity, {"nan"})
        THEN RaiseError("ValueError", <<>>)
        ELSE IF ~has(employee) \/ ~has(process)
        THEN RaiseError("KeyError", <<>>)
        ELSE LET kept == SelectSeq(frame.rows, LAMBDA row :
                             /\ cell(frame, row, date) # "nan"
                             /\ cell(frame, row, employee) # "nan"
                             /\ cell(frame, row, process) # "nan")
             IN  ReturnRecords([r \in 1..Len(kept) |-> record_of(frame, kept[r])])

\* Lines 101-129; the rest of the function is convert.
load_operations_from_excel(exists, names, data, mapping, extra) ==
    IF ~exists
    THEN RaiseError("FileNotFoundError", <<>>)
    ELSE IF names = <<>> \/ data = <<>>
    THEN ReturnRecords(<<>>)
    ELSE LET outcomes == resolve_all(names, mapping, extra)
             missing_fields == missing_of(outcomes)
         IN  IF missing_fields # <<>>
             THEN RaiseError("ColumnMappingError", missing_fields_message(missing_fields))
             ELSE convert(with_optional_columns(
                      [names |-> renamed(names, resolved_of(outcomes)),
                       rows  |-> data]))

----------------------------------------------------------------------------
(* gui.py: the manual column-mapping dialog of _prompt_column_mapping      *)

Seleziona   == <<"(","S","e","l","e","z","i","o","n","a",")">>
Facoltativo == <<"(","F","a","c","o","l","t","a","t","i","v","o",")">>

\* The values of a field's combobox: its placeholder, then the columns.
option_values(field, names) ==
    IF field \in Range(OPTIONAL_FIELDS)
    THEN <<Facoltativo>> \o names
    ELSE <<Seleziona>> \o names

\* The value a combobox starts with: the suggested column, else the
\* placeholder.
initial_value(field, names, suggestions) ==
    IF /\ field \in DOMAIN suggestions
       /\ suggestions[field] # <<>>
       /\ suggestions[field] \in Range(names)
    THEN suggestions[field]
    ELSE option_values(field, names)[1]

IncompleteFeedback == "Completa la selezione di tutte le colonne richieste."
DuplicateFeedback ==
    "Ogni colonna può essere assegnata a un solo campo. Rivedi la selezione."

\* A variant of the loop of _confirm that does not look at used_columns.
confirm_loop_any(fields, values, selections, used_columns) ==
    LET required == {f \in Range(fields) : values[f] # Facoltativo
                                           \/ f \notin Range(OPTIONAL_FIELDS)}
    IN  IF \E f \in required : values[f] = Seleziona
        THEN [feedback |-> IncompleteFeedback, selections |-> <<>>]
        ELSE [feedback |-> "", selections |-> [f \in required |-> values[f]]]

\* The loop of _confirm over mapping_vars: it returns with a feedback text at
\* the first field it cannot accept, otherwise it runs to the end with the
\* selections (feedback "": the label is not touched).
RECURSIVE confirm_loop(_, _, _, _)
confirm_loop(fields, values, selections, used_columns) ==
    IF fields = <<>>
    THEN [feedback |-> "", selections |-> selections]
    ELSE LET field == Head(fields)
             value == values[field]
         IN  IF field \in Range(OPTIONAL_FIELDS) /\ value = Facoltativo
             THEN confirm_loop(Tail(fields), values, selections, used_columns)
             ELSE IF value = Seleziona
             THEN [feedback |-> IncompleteFeedback, selections |-> <<>>]
             ELSE IF value \in used_columns
             THEN [feedback |-> DuplicateFeedback, selections |-> <<>>]
             ELSE confirm_loop(Tail(fields), values,
                               selections @@ (field :> value),
                               used_columns \cup {value})

----------------------------------------------------------------------------
(* column_classifier.py: tokens and the Naive Bayes classifier             *)
(*                                                                         *)
(* A float score is a fixed-point integer, in units of 1/Scale; the two    *)
(* infinities are two integers beyond every finite score.                  *)

Digits == {"0","1","2","3","4","5","6","7","8","9"}

\* The characters _TOKEN_RE accepts: \w is a letter, a digit or "_".
WordChars ==
    Range(UpperChars) \cup Range(LowerChars) \cup {DotlessI} \cup Digits \cup {"_"}

\* The maximal runs of letters and digits, the underscore a separator.
findall_alnum(text) ==
    LET alnum == WordChars \ {"_"}
        end(i) == Min({j \in i..Len(text) :
                          j = Len(text) \/ text[j + 1] \notin alnum})
        run(starts, k) ==
            LET i == CHOOSE i \in starts : Cardinality({j \in starts : j < i}) = k - 1
            IN  SubSeq(text, i, end(i))
        runs(starts) == [k \in 1..Cardinality(starts) |-> run(starts, k)]
    IN  runs({i \in 1..Len(text) :
                 /\ text[i] \in alnum
                 /\ (i = 1 \/ text[i - 1] \notin alnum)})

\* _TOKEN_RE.findall(text): the maximal runs of word characters, from left
\* to right.
findall(text) ==
    LET end(i) == Min({j \in i..Len(text) :
                          j = Len(text) \/ text[j + 1] \notin WordChars})
        run(starts, k) ==
            LET i == CHOOSE i \in starts : Cardinality({j \in starts : j < i}) = k - 1
            IN  SubSeq(text, i, end(i))
        runs(starts) == [k \in 1..Cardinality(starts) |-> run(starts, k)]
    IN  runs({i \in 1..Len(text) :
                 /\ text[i] \in WordChars
                 /\ (i = 1 \/ text[i - 1] \notin WordChars)})

\* A tokenizer that keeps the case of its tokens.
_tokenize_unfolded(text) == IF text = <<>> THEN <<>> ELSE findall(text)

_tokenize(text) ==
    LET folded(runs) == [k \in 1..Len(runs) |-> casefold(runs[k])]
    IN  IF text = <<>> THEN <<>> ELSE folded(findall(text))

\* _flatten_samples: the tokens of the samples, None and "" skipped.
RECURSIVE _flatten_samples(_)
_flatten_samples(samples) ==
    IF samples = <<>>
    THEN <<>>
    ELSE (IF Head(samples) = <<>> THEN <<>> ELSE _tokenize(Head(samples)))
             \o _flatten_samples(Tail(samples))

\* The unit of a score: 1/Scale.
Scale == 60000

\* float("-inf") and float("inf").
NegInf == -2000000000
PosInf == 2000000000

isfinite(x) == x # NegInf /\ x # PosInf

\* Float addition and subtraction, infinities included.
plus(a, b) ==
    IF a = NegInf \/ b = NegInf THEN NegInf
    ELSE IF a = PosInf \/ b = PosInf THEN PosInf
    ELSE a + b

minus(a, b) ==
    IF b = NegInf THEN plus(a, PosInf)
    ELSE IF b = PosInf THEN plus(a, NegInf)
    ELSE plus(a, 0 - b)

\* LogTable[n] is math.log(n), rounded to the unit.
LogTable ==
    <<
           0,  41589,  65917,  83178,  96566, 107506, 116755, 124766,
      131833, 138155, 143874, 149094, 153897, 158343, 162483, 166355,
      169993, 173422, 176666, 179744, 182671, 185463, 188130, 190683,
      193133, 195486, 197750, 199932, 202038, 204072, 206039, 207944,
      209790, 211582, 213321, 215011, 216655, 218255, 219814, 221333,
      222814, 224260, 225672, 227051, 228400, 229718, 231009, 232272,
      233509, 234721, 235910, 237075, 238218, 239339, 240440, 241521,
      242583, 243627, 244652, 245661, 246652, 247628, 248588, 249533,
      250463, 251379, 252282, 253170, 254046, 254910, 255761, 256600,
      257428, 258244, 259049, 259844, 260628, 261403, 262167, 262922,
      263667, 264403, 265130, 265849, 266559, 267261, 267954, 268640,
      269318, 269989, 270652, 271307, 271956, 272598, 273233, 273861
    >>


\* math.log(numerator / denominator)
math_log(numerator, denominator) == LogTable[numerator] - LogTable[denominator]

\* sum() over the values of a list or of a dict.
RECURSIVE sum(_)
sum(values) ==
    LET rest(key) == [other \in DOMAIN values \ {key} |-> values[other]]
        split(key) == values[key] + sum(rest(key))
    IN  IF DOMAIN values = {} THEN 0 ELSE split(CHOOSE key \in DOMAIN values : TRUE)

RECURSIVE concat(_)
concat(lists) == IF lists = <<>> THEN <<>> ELSE Head(lists) \o concat(Tail(lists))

\* Counter.update over the tokens of the training samples of one field.
token_counter(samples) ==
    LET counts(tokens) ==
            [token \in Range(tokens) |->
                Cardinality({i \in 1..Len(tokens) : tokens[i] = token})]
    IN  counts(concat([i \in 1..Len(samples) |-> _tokenize(samples[i])]))

\* _FieldProfile
_FieldProfile(field, token_counts, total_tokens) ==
    [field |-> field, token_counts |-> token_counts, total_tokens |-> total_tokens]

Max(S) == CHOOSE x \in S : \A y \in S : x >= y

\* The body of __init__ past its guard: a profile per field, the size of the
\* vocabulary and the uniform log prior.
build_profiles(training_samples) ==
    LET n == Len(training_samples)
        profile(field, counter) == _FieldProfile(field, counter, sum(counter))
        instance(counters) ==
            [kind |-> "instance",
             error |-> "",
             message |-> "",
             fields |-> [i \in 1..n |-> training_samples[i].field],
             profiles |->
                 [field \in {training_samples[i].field : i \in 1..n} |->
                     profile(field,
                             counters[CHOOSE i \in 1..n : training_samples[i].field = field])],
             vocabulary_size |->
                 Max({Cardinality(UNION {DOMAIN counters[i] : i \in 1..n}), 1}),
             log_prior |-> math_log(1, Max({n, 1}))]
    IN  instance([i \in 1..n |-> token_counter(training_samples[i].samples)])

\* A variant whose constructor accepts an empty training map.
NaiveBayesColumnClassifier_lenient(training_samples) ==
    build_profiles(training_samples)

\* NaiveBayesColumnClassifier.__init__: the training map is a list of
\* (field, samples) items in the order of the dict.
NaiveBayesColumnClassifier(training_samples) ==
    IF training_samples = <<>>
    THEN [kind |-> "raise",
          error |-> "ValueError",
          message |-> "training_samples must not be empty",
          fields |-> <<>>,
          profiles |-> <<>>,
          vocabulary_size |-> 0,
          log_prior |-> 0]
    ELSE build_profiles(training_samples)

DEFAULT_TRAINING_DATA ==
    <<
      [field |-> date, samples |-> <<
        <<"d","a","t","a"," ","p","r","o","d","u","z","i","o","n","e">>,   \* data produzione
        <<"g","i","o","r","n","o"," ","c","o","m","m","e","s","s","a">>,   \* giorno commessa
        <<"p","r","o","d","u","c","t","i","o","n"," ","d","a","t","e">>,   \* production date
        <<"d","a","y">>,   \* day
        <<"d","a","t","a"," ","r","e","g","i","s","t","r","a","z","i","o","n","e">>,   \* data registrazione
        <<"2","0","2","4","-","0","1","-","0","1">>,   \* 2024-01-01
        <<"0","3","/","0","2","/","2","0","2","4">>,   \* 03/02/2024
        <<"1","2",".","0","2",".","2","4">>   \* 12.02.24
      >>],
      [field |-> employee, samples |-> <<
        <<"o","p","e","r","a","t","o","r","e">>,   \* operatore
        <<"d","i","p","e","n","d","e","n","t","e">>,   \* dipendente
        <<"r","e","s","p","o","n","s","a","b","i","l","e"," ","c","e","l","l","a">>,   \* responsabile cella
        <<"w","o","r","k","e","r"," ","n","a","m","e">>,   \* worker name
        <<"o","p","e","r","a","t","o","r">>,   \* operator
        <<"m","a","r","i","o"," ","r","o","s","s","i">>,   \* mario rossi
        <<"t","e","a","m"," ","l","e","a","d","e","r">>   \* team leader
      >>],
      [field |-> process, samples |-> <<
        <<"p","r","o","c","e","s","s","o">>,   \* processo
        <<"f","a","s","e"," ","p","r","o","d","u","t","t","i","v","a">>,   \* fase produttiva
        <<"o","p","e","r","a","z","i","o","n","e">>,   \* operazione
        <<"f","a","s","e">>,   \* fase
        <<"p","r","o","d","u","c","t","i","o","n"," ","s","t","a","g","e">>,   \* production stage
        <<"t","a","g","l","i","o"," ","l","a","s","e","r">>,   \* taglio laser
        <<"a","s","s","e","m","b","l","a","g","g","i","o">>   \* assemblaggio
      >>],
      [field |-> machine, samples |-> <<
        <<"m","a","c","c","h","i","n","a">>,   \* macchina
        <<"i","m","p","i","a","n","t","o">>,   \* impianto
        <<"p","o","s","t","a","z","i","o","n","e">>,   \* postazione
        <<"m","a","c","h","i","n","e">>,   \* machine
        <<"e","q","u","i","p","m","e","n","t">>,   \* equipment
        <<"p","i","e","g","a","t","r","i","c","e"," ","0","2">>   \* piegatrice 02
      >>],
      [field |-> process_type, samples |-> <<
        <<"t","i","p","o"," ","p","r","o","c","e","s","s","o">>,   \* tipo processo
        <<"t","i","p","o","l","o","g","i","a">>,   \* tipologia
        <<"c","a","t","e","g","o","r","i","a">>,   \* categoria
        <<"p","r","o","c","e","s","s"," ","f","a","m","i","l","y">>,   \* process family
        <<"a","s","s","e","m","b","l","a","g","g","i","o">>,   \* assemblaggio
        <<"l","a","v","o","r","a","z","i","o","n","e"," ","m","e","c","c","a","n","i","c","a">>   \* lavorazione meccanica
      >>],
      [field |-> quantity, samples |-> <<
        <<"p","e","z","z","i">>,   \* pezzi
        <<"o","u","t","p","u","t">>,   \* output
        <<"q","t","a"," ","p","r","o","d","o","t","t","a">>,   \* qta prodotta
        <<"p","i","e","c","e","s">>,   \* pieces
        <<"n","u","m","e","r","o"," ","p","e","z","z","i">>,   \* numero pezzi
        <<"1","0","0">>,   \* 100
        <<"4","5">>   \* 45
      >>],
      [field |-> duration_minutes, samples |-> <<
        <<"d","u","r","a","t","a">>,   \* durata
        <<"m","i","n","u","t","i"," ","l","a","v","o","r","a","t","i">>,   \* minuti lavorati
        <<"t","e","m","p","o"," ","c","i","c","l","o">>,   \* tempo ciclo
        <<"c","y","c","l","e"," ","m","i","n","u","t","e","s">>,   \* cycle minutes
        <<"t","e","m","p","o"," ","t","o","t","a","l","e">>,   \* tempo totale
        <<"8","9">>,   \* 89
        <<"1","2","3">>   \* 123
      >>]
    >>


\* A variant that scores the header alone.
score_header_only(classifier, field, header, samples) ==
    LET denominator ==
            classifier.profiles[field].total_tokens + classifier.vocabulary_size
        count(token) == Get(classifier.profiles[field].token_counts, token, 0)
        total(tokens) ==
            IF tokens = <<>>
            THEN NegInf
            ELSE classifier.log_prior
                     + sum([i \in 1..Len(tokens) |->
                               math_log(count(tokens[i]) + 1, denominator)])
    IN  total(_tokenize(header))

\* NaiveBayesColumnClassifier.score: -inf without tokens, else the log prior
\* plus, per token, the log of its add-one smoothed share in the field.
score(classifier, field, header, samples) ==
    LET denominator ==
            classifier.profiles[field].total_tokens + classifier.vocabulary_size
        count(token) == Get(classifier.profiles[field].token_counts, token, 0)
        total(tokens) ==
            IF tokens = <<>>
            THEN NegInf
            ELSE classifier.log_prior
                     + sum([i \in 1..Len(tokens) |->
                               math_log(count(tokens[i]) + 1, denominator)])
    IN  total(_tokenize(header) \o _flatten_samples(samples))

\* The candidates argument: omitted (None) or a list of fields.
Omitted == [given |-> FALSE, list |-> <<>>]
Given(list) == [given |-> TRUE, list |-> list]

\* A variant that sorts by ascending score.
sorted_by_score_ascending(scored) ==
    LET rank(i) ==
            Cardinality({j \in 1..Len(scored) :
                \/ scored[j].score < scored[i].score
                \/ scored[j].score = scored[i].score /\ j < i}) + 1
    IN  [k \in 1..Len(scored) |-> scored[CHOOSE i \in 1..Len(scored) : rank(i) = k]]

\* A variant that puts equal scores in reverse input order.
sorted_by_score_unstable(scored) ==
    LET rank(i) ==
            Cardinality({j \in 1..Len(scored) :
                \/ scored[j].score > scored[i].score
                \/ scored[j].score = scored[i].score /\ j > i}) + 1
    IN  [k \in 1..Len(scored) |-> scored[CHOOSE i \in 1..Len(scored) : rank(i) = k]]

\* sorted(scored, key=score, reverse=True): descending, and stable, so items
\* of equal score stay in input order.
sorted_by_score(scored) ==
    LET rank(i) ==
            Cardinality({j \in 1..Len(scored) :
                \/ scored[j].score > scored[i].score
                \/ scored[j].score = scored[i].score /\ j < i}) + 1
    IN  [k \in 1..Len(scored) |-> scored[CHOOSE i \in 1..Len(scored) : rank(i) = k]]

\* NaiveBayesColumnClassifier.most_likely_fields
most_likely_fields(classifier, header, samples, candidates) ==
    LET scored(fields) ==
            [i \in 1..Len(fields) |->
                [field |-> fields[i],
                 score |-> score(classifier, fields[i], header, samples)]]
    IN  sorted_by_score(scored(IF candidates.given
                               THEN candidates.list
                               ELSE classifier.fields))

----------------------------------------------------------------------------
(* column_classifier.py: analyse_samples and the ColumnGuesser             *)

\* A float quotient, kept as its two integers.
ratio(numerator, denominator) ==
    [numerator |-> numerator, denominator |-> denominator]

DateSeparators == {"-", "/", "."}

\* date_pattern.search(text): somewhere a digit, a separator, one or two
\* digits, a separator and a digit.
date_pattern_search(text) ==
    LET digit(i) == i <= Len(text) /\ text[i] \in Digits
        separator(i) == i <= Len(text) /\ text[i] \in DateSeparators
    IN  \E i \in 1..Len(text) :
            /\ digit(i)
            /\ separator(i + 1)
            /\ digit(i + 2)
            /\ \/ separator(i + 3) /\ digit(i + 4)
               \/ digit(i + 3) /\ separator(i + 4) /\ digit(i + 5)

\* text.replace(",", ".")
replace_comma(text) == [i \in 1..Len(text) |-> IF text[i] = "," THEN "." ELSE text[i]]

\* Digits, with single underscores between digits.
digit_group(text) ==
    /\ text # <<>>
    /\ \A i \in 1..Len(text) :
           \/ text[i] \in Digits
           \/ /\ text[i] = "_"
              /\ 1 < i /\ i < Len(text)
              /\ text[i - 1] \in Digits
              /\ text[i + 1] \in Digits

\* float(text) does not raise ValueError: an optional sign, then inf,
\* infinity or nan in any case, or a decimal number with an optional exponent.
float_parses(text) ==
    LET unsigned(s) == IF s # <<>> /\ Head(s) \in {"+", "-"} THEN Tail(s) ELSE s
        first(S, otherwise) == IF S = {} THEN otherwise ELSE Min(S)
        special(body) ==
            casefold(body) \in {<<"i","n","f">>, <<"n","a","n">>,
                                <<"i","n","f","i","n","i","t","y">>}
        parts(whole, fraction) ==
            /\ whole # <<>> \/ fraction # <<>>
            /\ whole = <<>> \/ digit_group(whole)
            /\ fraction = <<>> \/ digit_group(fraction)
        mantissa(digits, point) ==
            parts(SubSeq(digits, 1, point - 1), SubSeq(digits, point + 1, Len(digits)))
        decimal(body, at) ==
            /\ mantissa(SubSeq(body, 1, at - 1),
                        first({i \in 1..(at - 1) : body[i] = "."}, at))
            /\ at > Len(body) \/ digit_group(unsigned(SubSeq(body, at + 1, Len(body))))
        number(body) ==
            \/ special(body)
            \/ decimal(body, first({i \in 1..Len(body) : body[i] \in {"e", "E"}},
                                   Len(body) + 1))
    IN  number(unsigned(text))

\* A variant that leaves blank and None samples out of the denominator.
analyse_samples_nonblank(samples) ==
    LET measured(texts, filled) ==
            [numeric_ratio |->
                 ratio(Cardinality({i \in filled : float_parses(replace_comma(texts[i]))}),
                       Max({Cardinality(filled), 1})),
             date_like_ratio |->
                 ratio(Cardinality({i \in filled : date_pattern_search(texts[i])}),
                       Max({Cardinality(filled), 1})),
             text_length |->
                 ratio(sum([i \in 1..Len(texts) |-> Len(texts[i])]),
                       Max({Cardinality(filled), 1}))]
        stripped(texts) == measured(texts, {i \in 1..Len(texts) : texts[i] # <<>>})
    IN  stripped([i \in 1..Len(samples) |-> strip(samples[i])])

\* analyse_samples: a None sample is the empty string here, both are skipped
\* by the loop and both count in len(samples).
analyse_samples(samples) ==
    LET measured(texts, filled) ==
            [numeric_ratio |->
                 ratio(Cardinality({i \in filled : float_parses(replace_comma(texts[i]))}),
                       Max({Len(samples), 1})),
             date_like_ratio |->
                 ratio(Cardinality({i \in filled : date_pattern_search(texts[i])}),
                       Max({Len(samples), 1})),
             text_length |->
                 ratio(sum([i \in 1..Len(texts) |-> Len(texts[i])]),
                       Max({Len(samples), 1}))]
        stripped(texts) == measured(texts, {i \in 1..Len(texts) : texts[i] # <<>>})
    IN  IF samples = <<>>
        THEN [numeric_ratio |-> ratio(0, 1),
              date_like_ratio |-> ratio(0, 1),
              text_length |-> ratio(0, 1)]
        ELSE stripped([i \in 1..Len(samples) |-> strip(samples[i])])

\* weight * quotient as a score, the weight given in thousandths.
weighted(thousandths, quotient) ==
    (thousandths * (Scale \div 1000) * quotient.numerator) \div quotient.denominator

\* The field-specific adjustments of evaluate.
adjusted(field, base_score, metadata) ==
    IF field = date
    THEN minus(plus(base_score, weighted(2500, metadata.date_like_ratio)),
               weighted(1500, metadata.numeric_ratio))
    ELSE IF field \in {quantity, duration_minutes}
    THEN minus(plus(base_score, weighted(3000, metadata.numeric_ratio)),
               weighted(1000, metadata.date_like_ratio))
    ELSE minus(plus(base_score, weighted(2, metadata.text_length)),
               weighted(2000, metadata.numeric_ratio))

\* A variant that lets a non-finite classifier score through.
evaluate_unguarded(classifier, field, header, samples) ==
    adjusted(field, score(classifier, field, header, samples), analyse_samples(samples))

\* ColumnGuesser.evaluate
evaluate(classifier, field, header, samples) ==
    LET base_score(raw_score) ==
            IF ~isfinite(raw_score) THEN (0 - 1000) * Scale ELSE raw_score
    IN  adjusted(field, base_score(score(classifier, field, header, samples)),
                 analyse_samples(samples))

\* What guess returns: a header and its score, or None and a score.
Guessed(header, score_of_header) ==
    [column_is_none |-> FALSE, column |-> header, score |-> score_of_header]
NotGuessed(best_score) ==
    [column_is_none |-> TRUE, column |-> None, score |-> best_score]

\* The loop of guess over the columns from position i on: the best column
\* (none yet while best_is_none), the best and the second best score.
RECURSIVE guess_loop(_, _, _, _, _, _)
guess_loop(classifier, field, columns, already_assigned, i, best) ==
    LET step(header, value) ==
            IF value > best.best_score
            THEN [best_is_none |-> FALSE,
                  best_column |-> header,
                  best_score |-> value,
                  second_score |-> best.best_score]
            ELSE IF value > best.second_score
            THEN [best EXCEPT !.second_score = value]
            ELSE best
    IN  IF i > Len(columns)
        THEN best
        ELSE guess_loop(classifier, field, columns, already_assigned, i + 1,
                 IF columns[i].header \in already_assigned
                 THEN best
                 ELSE step(columns[i].header,
                           evaluate(classifier, field, columns[i].header,
                                    columns[i].samples)))

\* The accumulators of guess before its loop.
NoBest ==
    [best_is_none |-> TRUE, best_column |-> None,
     best_score |-> NegInf, second_score |-> NegInf]

\* A variant that also accepts a best column less than 0.75 ahead.
guess_without_margin(classifier, field, columns, already_assigned) ==
    LET decide(best) ==
            IF best.best_is_none
            THEN NotGuessed(NegInf)
            ELSE IF best.best_score < (0 - 20) * Scale
            THEN NotGuessed(best.best_score)
            ELSE Guessed(best.best_column, best.best_score)
    IN  decide(guess_loop(classifier, field, columns, already_assigned, 1, NoBest))

\* A variant that ignores already_assigned.
guess_any_column(classifier, field, columns, already_assigned) ==
    LET decide(best) ==
            IF best.best_is_none
            THEN NotGuessed(NegInf)
            ELSE IF \/ best.best_score < (0 - 20) * Scale
                    \/ minus(best.best_score, best.second_score) < (3 * Scale) \div 4
            THEN NotGuessed(best.best_score)
            ELSE Guessed(best.best_column, best.best_score)
    IN  decide(guess_loop(classifier, field, columns, {}, 1, NoBest))

\* ColumnGuesser.guess: columns is the list of (header, samples) items of the
\* mapping, in its order; -20 and 0.75 are the floor and the margin.
guess(classifier, field, columns, already_assigned) ==
    LET decide(best) ==
            IF best.best_is_none
            THEN NotGuessed(NegInf)
            ELSE IF \/ best.best_score < (0 - 20) * Scale
                    \/ minus(best.best_score, best.second_score) < (3 * Scale) \div 4
            THEN NotGuessed(best.best_score)
            ELSE Guessed(best.best_column, best.best_score)
    IN  decide(guess_loop(classifier, field, columns, already_assigned, 1, NoBest))

\* build_default_guesser: the guesser holds the classifier of the embedded
\* training data.
build_default_guesser == NaiveBayesColumnClassifier(DEFAULT_TRAINING_DATA)

----------------------------------------------------------------------------
(* welcome_app.py: run                                                     *)

\* str.startswith
startswith(text, prefix) ==
    Len(text) >= Len(prefix) /\ SubSeq(text, 1, Len(prefix)) = prefix

\* token.replace("\\", "/")
replace_backslash(token) ==
    [i \in 1..Len(token) |-> IF token[i] = "\\" THEN "/" ELSE token[i]]

trumetrapla == <<"t","r","u","m","e","t","r","a","p","l","a">>
DashM     == <<"-","m">>
CliFlag   == <<"-","-","c","l","i">>
NoGuiFlag == <<"-","-","n","o","-","g","u","i">>
GuiFlag   == <<"-","-","g","u","i">>

control_flags == {CliFlag, NoGuiFlag, GuiFlag}

\* The loop of _strip_module_invocation_tokens from the token at position i.
RECURSIVE strip_loop(_, _, _, _)
strip_loop(arguments, i, cleaned, skip_next) ==
    IF i > Len(arguments)
    THEN cleaned
    ELSE IF skip_next
         THEN strip_loop(arguments, i + 1, cleaned, FALSE)
         ELSE IF arguments[i] = DashM
              THEN strip_loop(arguments, i + 1, cleaned, TRUE)
              ELSE IF cleaned = <<>>
                      /\ startswith(replace_backslash(arguments[i]), trumetrapla)
                   THEN strip_loop(arguments, i + 1, cleaned, FALSE)
                   ELSE strip_loop(arguments, i + 1,
                                   Append(cleaned, arguments[i]), FALSE)

_strip_module_invocation_tokens(arguments) ==
    strip_loop(arguments, 1, <<>>, FALSE)

\* [arg for arg in raw_args if arg not in control_flags]
RECURSIVE without_control_flags(_)
without_control_flags(raw_args) ==
    IF raw_args = <<>>
    THEN <<>>
    ELSE (IF Head(raw_args) \in control_flags THEN <<>> ELSE <<Head(raw_args)>>)
             \o without_control_flags(Tail(raw_args))

\* What run does: whether it calls launch_welcome_window, the calls of
\* _run_cli it makes and the error it lets through.  `outcome_of_launch` is
\* what launch_welcome_window does when called: it returns ("returned"),
\* raises GUIUnavailableError or raises another error.
Ran(launched, calls_of_cli, error) ==
    [launched |-> launched, cli_calls |-> calls_of_cli, error |-> error]

\* A run that launches the window whatever the control flags.
run_ignoring_flags(arguments, outcome_of_launch) ==
    LET raw_args == IF arguments = <<>> THEN <<>> ELSE Tail(arguments)
        decide(cleaned_cli_args) ==
            IF cleaned_cli_args # <<>>
            THEN Ran(FALSE, <<cleaned_cli_args>>, "")
            ELSE IF outcome_of_launch = "GUIUnavailableError"
                 THEN Ran(TRUE, <<cleaned_cli_args>>, "")
                 ELSE Ran(TRUE, <<>>,
                          IF outcome_of_launch = "returned" THEN "" ELSE outcome_of_launch)
    IN  decide(_strip_module_invocation_tokens(without_control_flags(raw_args)))

run(arguments, outcome_of_launch) ==
    LET raw_args == IF arguments = <<>> THEN <<>> ELSE Tail(arguments)
        wants_cli == CliFlag \in Range(raw_args) \/ NoGuiFlag \in Range(raw_args)
        decide(cleaned_cli_args) ==
            IF wants_cli \/ cleaned_cli_args # <<>>
            THEN Ran(FALSE, <<cleaned_cli_args>>, "")
            ELSE IF outcome_of_launch = "GUIUnavailableError"
                 THEN Ran(TRUE, <<cleaned_cli_args>>, "")
                 ELSE Ran(TRUE, <<>>,
                          IF outcome_of_launch = "returned" THEN "" ELSE outcome_of_launch)
    IN  decide(_strip_module_invocation_tokens(without_control_flags(raw_args)))

----------------------------------------------------------------------------
(* models.py and metrics.py: records and their aggregation                 *)
(*                                                                         *)
(* A float is the quotient of two integers; the quotient 0/0 is NaN.  The  *)
(* quantities of the records are small integers and their minutes are      *)
(* multiples of 15, so the sums of the code are exact and its quotients    *)
(* are ordered as the exact ones.                                          *)

NaN == ratio(0, 0)
isnan(x) == x.denominator = 0
Zero == ratio(0, 1)

\* x < y on floats: False when either is NaN.
less(x, y) ==
    /\ ~isnan(x)
    /\ ~isnan(y)
    /\ x.numerator * y.denominator < y.numerator * x.denominator

\* x + y on floats.
add(x, y) ==
    IF isnan(x) \/ isnan(y)
    THEN NaN
    ELSE ratio(x.numerator * y.denominator + y.numerator * x.denominator,
               x.denominator * y.denominator)

\* A float as the quotient of its smallest integers.
RECURSIVE gcd(_, _)
gcd(a, b) == IF b = 0 THEN a ELSE gcd(b, a % b)
reduced(x) ==
    LET lowest(n, d, g) == ratio(n \div g, d \div g)
    IN  IF isnan(x) THEN NaN
        ELSE lowest(x.numerator, x.denominator,
                    gcd(IF x.numerator < 0 THEN 0 - x.numerator ELSE x.numerator,
                        x.denominator))

\* OperationRecord, without its date.  duration_minutes is a float (a number
\* of minutes or NaN), quantity an int, and extra a dict: the list of its
\* items, in the order of its keys.
OperationRecord(name, step, tool, kind, pieces, minutes, extra) ==
    [employee |-> name, process |-> step, machine |-> tool, process_type |-> kind,
     quantity |-> pieces, duration_minutes |-> minutes, extra |-> extra]

\* OperationRecord.hours: max(self.duration_minutes, 0.0) / 60.0; max keeps
\* its first argument unless the second is greater, so NaN stays NaN.
hours(record) ==
    LET positive(minutes) == IF less(minutes, Zero) THEN Zero ELSE minutes
        sixtieth(minutes) ==
            reduced(ratio(minutes.numerator, minutes.denominator * 60))
    IN  IF isnan(record.duration_minutes)
        THEN NaN
        ELSE sixtieth(positive(record.duration_minutes))

\* The loop of _aggregate_by: the buckets, in the order their keys first
\* appear.
RECURSIVE aggregate_loop(_, _, _)
aggregate_loop(records, i, container) ==
    LET found(entity) == {b \in 1..Len(container) : container[b].entity = entity}
        updated(b, record) ==
            [container EXCEPT
                ![b].quantity = @ + record.quantity,
                ![b].hours = reduced(add(@, hours(record)))]
        created(record) ==
            Append(container,
                   [entity |-> record.employee, quantity |-> record.quantity,
                    hours |-> reduced(add(Zero, hours(record)))])
        step(record) ==
            IF found(record.employee) = {}
            THEN created(record)
            ELSE updated(CHOOSE b \in found(record.employee) : TRUE, record)
    IN  IF i > Len(records)
        THEN container
        ELSE aggregate_loop(records, i + 1, step(records[i]))

\* _aggregate_by(records, key=lambda record: record.employee)
_aggregate_by(records) == aggregate_loop(records, 1, <<>>)

\* values["quantity"] / values["hours"] if values["hours"] else 0.0: NaN is
\* true.
throughput_of(pieces, worked) ==
    IF isnan(worked)
    THEN NaN
    ELSE IF worked.numerator = 0
         THEN Zero
         ELSE reduced(ratio(pieces * worked.denominator, worked.numerator))

EntityPerformance(entity, total_quantity, total_hours, throughput) ==
    [entity |-> entity, total_quantity |-> total_quantity,
     total_hours |-> total_hours, throughput |-> throughput]

reversed(list) == [i \in 1..Len(list) |-> list[Len(list) + 1 - i]]

\* list.sort on fewer than 64 items, by throughput: the run the list starts
\* with is found (a strictly descending one is reversed) and the other items
\* are inserted into it by binary search.  Only < is used.
RECURSIVE run_length(_, _, _)
run_length(list, n, descending) ==
    IF n = Len(list)
    THEN n
    ELSE IF less(list[n + 1].throughput, list[n].throughput) = descending
         THEN run_length(list, n + 1, descending)
         ELSE n

RECURSIVE bisect(_, _, _, _)
bisect(list, pivot, l, r) ==
    LET middle(p) ==
            IF less(pivot.throughput, list[p].throughput)
            THEN bisect(list, pivot, l, p)
            ELSE bisect(list, pivot, p + 1, r)
    IN  IF l >= r THEN l ELSE middle(l + (r - l) \div 2)

RECURSIVE binarysort(_, _)
binarysort(list, start) ==
    LET inserted(l) ==
            SubSeq(list, 1, l - 1) \o <<list[start]>>
                \o SubSeq(list, l, start - 1) \o SubSeq(list, start + 1, Len(list))
    IN  IF start > Len(list)
        THEN list
        ELSE binarysort(inserted(bisect(list, list[start], 1, start)), start + 1)

list_sort(list) ==
    LET descending == less(list[2].throughput, list[1].throughput)
        sorted_from(n) ==
            binarysort((IF descending THEN reversed(SubSeq(list, 1, n))
                                      ELSE SubSeq(list, 1, n))
                           \o SubSeq(list, n + 1, Len(list)),
                       n + 1)
    IN  IF Len(list) < 2
        THEN list
        ELSE sorted_from(run_length(list, 2, descending))

\* performance.sort(key=..., reverse=True): the list is reversed, sorted and
\* reversed again.
sort_reverse(list) == reversed(list_sort(reversed(list)))

_build_entity_performance(container) ==
    sort_reverse(
        [b \in 1..Len(container) |->
            EntityPerformance(container[b].entity, container[b].quantity,
                              container[b].hours,
                              throughput_of(container[b].quantity, container[b].hours))])

group_by_employee(records) == _build_entity_performance(_aggregate_by(records))

\* sum(record.hours for record in records), from 0.
RECURSIVE total_hours_of(_)
total_hours_of(records) ==
    IF records = <<>>
    THEN Zero
    ELSE reduced(add(total_hours_of(SubSeq(records, 1, Len(records) - 1)),
                     hours(records[Len(records)])))

Summary(total_quantity, total_hours, throughput, employees, processes) ==
    [total_quantity |-> total_quantity, total_hours |-> total_hours,
     throughput |-> throughput, employees |-> employees, processes |-> processes]

summarize_operations(records) ==
    LET summary(total_quantity, total_hours) ==
            Summary(total_quantity, total_hours,
                    throughput_of(total_quantity, total_hours),
                    Cardinality({records[i].employee : i \in 1..Len(records)}),
                    Cardinality({records[i].process : i \in 1..Len(records)}))
    IN  summary(sum([i \in 1..Len(records) |-> records[i].quantity]),
                total_hours_of(records))

----------------------------------------------------------------------------
(* gui.py: the state of the main window                                    *)
(*                                                                         *)
(* A ColumnSpec keeps its identifier, label, grouping_key and source; an   *)
(* OrderedDict is the list of its values, in the order of its keys.        *)

ColumnSpec(identifier, label, grouping_key, source) ==
    [identifier |-> identifier, label |-> label, grouping_key |-> grouping_key,
     source |-> source]

_canonical_column_specs ==
    <<ColumnSpec(date, <<"D","a","t","a">>, date, None),
      ColumnSpec(employee, <<"D","i","p","e","n","d","e","n","t","e">>, employee, None),
      ColumnSpec(process, <<"P","r","o","c","e","s","s","o">>, process, None),
      ColumnSpec(process_type, <<"T","i","p","o"," ","p","r","o","c","e","s","s","o">>, process_type, None),
      ColumnSpec(machine, <<"M","a","c","c","h","i","n","a">>, machine, None),
      ColumnSpec(quantity, <<"P","e","z","z","i">>, None, None),
      ColumnSpec(duration_minutes, <<"D","u","r","a","t","a"," ","(","m","i","n",")">>, None, None),
      ColumnSpec(<<"t","h","r","o","u","g","h","p","u","t">>, <<"P","e","z","z","i","/","o","r","a">>, None, None)>>

\* str.lower() on the alphabet used here.
lower(text) == casefold(text)

\* The characters the pattern [^0-9a-z] of _slugify_extra leaves alone.
SlugChars == Digits \cup (Range(LowerChars) \ {"à"})

\* The maximal runs of characters of a set in a text, from left to right.
runs_of(text, chars) ==
    LET end(i) == Min({j \in i..Len(text) :
                          j = Len(text) \/ text[j + 1] \notin chars})
        nth(starts, k) ==
            LET i == CHOOSE i \in starts : Cardinality({j \in starts : j < i}) = k - 1
            IN  SubSeq(text, i, end(i))
        all(starts) == [k \in 1..Cardinality(starts) |-> nth(starts, k)]
    IN  all({i \in 1..Len(text) :
                /\ text[i] \in chars
                /\ (i = 1 \/ text[i - 1] \notin chars)})

\* str(counter) for a counter below 100.
DecimalDigits == <<"0","1","2","3","4","5","6","7","8","9">>
str_of(counter) ==
    IF counter < 10
    THEN <<DecimalDigits[counter + 1]>>
    ELSE <<DecimalDigits[(counter \div 10) + 1], DecimalDigits[(counter % 10) + 1]>>

colonna      == <<"c","o","l","o","n","n","a">>
extra_prefix == <<"e","x","t","r","a","_">>

\* The while loop of _slugify_extra.
RECURSIVE slug_loop(_, _, _)
slug_loop(base, counter, used) ==
    LET identifier == base \o <<"_">> \o str_of(counter)
    IN  IF identifier \in used THEN slug_loop(base, counter + 1, used) ELSE identifier

\* An identifier that does not look at the identifiers in use.
_slugify_extra_reusing(label, used) ==
    LET token(runs) == IF runs = <<>> THEN colonna ELSE join(<<"_">>, runs)
    IN  extra_prefix \o token(runs_of(lower(label), SlugChars))

\* _slugify_extra: re.sub turns every run of other characters into one "_"
\* and strip("_") drops those at the two ends, which leaves the runs of
\* digits and lower-case letters joined by "_".  The identifier returned is
\* the one added to `used`.
_slugify_extra(label, used) ==
    LET token(runs) == IF runs = <<>> THEN colonna ELSE join(<<"_">>, runs)
        free(base) == IF base \in used THEN slug_loop(base, 1, used) ELSE base
    IN  free(extra_prefix \o token(runs_of(lower(label), SlugChars)))

\* dict.keys() and dict.get(key, "") of an extra mapping.
keys_of(extra) == [i \in 1..Len(extra) |-> extra[i].key]
extra_get(extra, key) ==
    IF \E i \in 1..Len(extra) : extra[i].key = key
    THEN extra[CHOOSE i \in 1..Len(extra) : extra[i].key = key].value
    ELSE <<>>

\* The two loops that fill extras_order: every key of every record, once,
\* in the order met.
RECURSIVE append_new(_, _)
append_new(order, keys) ==
    IF keys = <<>>
    THEN order
    ELSE append_new(IF Head(keys) \in Range(order) THEN order
                                                   ELSE Append(order, Head(keys)),
                    Tail(keys))
RECURSIVE extras_order(_, _)
extras_order(records, order) ==
    IF records = <<>>
    THEN order
    ELSE extras_order(Tail(records), append_new(order, keys_of(Head(records).extra)))

extra_colon   == <<"e","x","t","r","a",":">>
derived_colon == <<"d","e","r","i","v","e","d",":">>
grouping_key_of(column) == extra_colon \o column

\* The for loop over extras_order: the specs, with an identifier of its own
\* for every extra column.
RECURSIVE extra_specs(_, _, _)
extra_specs(order, specs, used_ids) ==
    LET added(identifier) ==
            extra_specs(Tail(order),
                        Append(specs, ColumnSpec(identifier, Head(order),
                                                 grouping_key_of(Head(order)),
                                                 Head(order))),
                        used_ids \cup {identifier})
    IN  IF order = <<>> THEN specs ELSE added(_slugify_extra(Head(order), used_ids))

identifiers_of(specs) == [i \in 1..Len(specs) |-> specs[i].identifier]

\* The keys _register_grouping is called with before the extra columns.
base_grouping ==
    <<process, employee, machine, process_type,
      derived_colon \o <<"p","r","o","c","e","s","s","_","m","a","c","h","i","n","e">>,
      derived_colon \o <<"p","r","o","c","e","s","s","_","f","a","m","i","l","y">>,
      derived_colon \o <<"p","r","o","d","u","c","t","i","v","i","t","y","_","b","a","n","d">>,
      derived_colon \o <<"m","a","t","e","r","i","a","l","_","f","a","m","i","l","y">>>>

\* A FilterControl: its identifier, default label, the value of its variable
\* and the values of its combobox.  Its extractor is the accessor of its
\* identifier.
FilterControl(identifier, default_label, variable, values) ==
    [identifier |-> identifier, default_label |-> default_label,
     variable |-> variable, values |-> values]

Tutti == <<"T","u","t","t","i">>
Tutte == <<"T","u","t","t","e">>
missing_label == <<"N","o","n"," ","s","p","e","c","i","f","i","c","a","t","o">>
nan_text == <<"n","a","n">>

\* FilterControl.format_value and normalized_value, on a string.
format_value(value) ==
    LET normalized == strip(value)
    IN  IF lower(normalized) = nan_text THEN <<>> ELSE normalized
normalized_value(value) ==
    IF format_value(value) # <<>> THEN format_value(value) ELSE missing_label

\* The accessors registered for the fields of a record and for its extra
\* columns: `record.field or ""` and record.extra.get(column, "").
accessor(identifier, record) ==
    CASE identifier = employee     -> record.employee
      [] identifier = process      -> record.process
      [] identifier = machine      -> record.machine
      [] identifier = process_type -> record.process_type
      [] OTHER -> extra_get(record.extra,
                            SubSeq(identifier, Len(extra_colon) + 1, Len(identifier)))

\* The code points of the characters of the values, in increasing order.
CodePointOrder ==
    <<" ">> \o SubSeq(DecimalDigits, 1, 10) \o SubSeq(UpperChars, 1, 26)
        \o SubSeq(LowerChars, 1, 26) \o <<"À", "à">>
code_point(c) == CHOOSE i \in 1..Len(CodePointOrder) : CodePointOrder[i] = c

\* a < b on strings.
RECURSIVE string_less(_, _)
string_less(a, b) ==
    IF b = <<>> THEN FALSE
    ELSE IF a = <<>> THEN TRUE
    ELSE IF Head(a) = Head(b) THEN string_less(Tail(a), Tail(b))
    ELSE code_point(Head(a)) < code_point(Head(b))

\* sorted() of a set of strings.
sorted(strings) ==
    [k \in 1..Cardinality(strings) |->
        CHOOSE s \in strings :
            Cardinality({other \in strings : string_less(other, s)}) = k - 1]

_populate_filter_control(control, records) ==
    LET values_set ==
            {normalized_value(accessor(control.identifier, records[i])) :
                i \in 1..Len(records)}
        options(sorted_values) ==
            sorted_values
                \o (IF missing_label \in values_set THEN <<missing_label>> ELSE <<>>)
    IN  IF records = <<>>
        THEN [control EXCEPT !.values = <<control.default_label>>,
                             !.variable = control.default_label]
        ELSE [control EXCEPT
                 !.values = <<control.default_label>>
                     \o options(sorted(values_set
                                           \ {control.default_label, missing_label})),
                 !.variable = control.default_label]

\* _AppState as launch_welcome_window leaves it: no record, the canonical
\* columns and the four base filters.
base_filter_controls ==
    <<FilterControl(employee, Tutti, Tutti, <<Tutti>>),
      FilterControl(process, Tutti, Tutti, <<Tutti>>),
      FilterControl(machine, Tutte, Tutte, <<Tutte>>),
      FilterControl(process_type, Tutte, Tutte, <<Tutte>>)>>

_AppState ==
    [records |-> <<>>, filtered_records |-> <<>>, file_path |-> None,
     column_specs |-> _canonical_column_specs,
     visible_columns |-> identifiers_of(_canonical_column_specs),
     grouping_accessors |-> <<employee, process, machine, process_type>>,
     filter_controls |-> base_filter_controls]

\* _refresh_column_specs(records)
_refresh_column_specs(state, records) ==
    LET base_ids == identifiers_of(_canonical_column_specs)
        refreshed(order, specs) ==
            LET kept == SelectSeq(state.visible_columns,
                                  LAMBDA id : id \in Range(identifiers_of(specs)))
                grouping == base_grouping
                                \o [i \in 1..Len(order) |-> grouping_key_of(order[i])]
            IN  [state EXCEPT
                    !.column_specs = specs,
                    !.visible_columns =
                        append_new(IF kept = <<>> THEN base_ids ELSE kept,
                                   identifiers_of(specs)),
                    !.grouping_accessors = grouping,
                    !.filter_controls =
                        SelectSeq(@, LAMBDA control :
                                         control.identifier \in Range(grouping))]
        with(order) ==
            refreshed(order, extra_specs(order, _canonical_column_specs, Range(base_ids)))
    IN  with(extras_order(records, <<>>))

\* _refresh_filters(records)
_refresh_filters(state, records) ==
    [state EXCEPT
        !.filter_controls =
            [c \in 1..Len(@) |-> _populate_filter_control(@[c], records)],
        !.filtered_records = records]

\* A filter that lists the records it keeps from the last to the first.
_apply_filters_backwards(state) ==
    LET active == SelectSeq(state.filter_controls, LAMBDA control :
                                control.variable \notin {<<>>, control.default_label})
        include(record) ==
            \A c \in 1..Len(active) :
                normalized_value(accessor(active[c].identifier, record))
                    = active[c].variable
    IN  IF state.records = <<>>
        THEN state
        ELSE [state EXCEPT
                 !.filtered_records = reversed(SelectSeq(state.records, include))]

\* _apply_filters()
_apply_filters(state) ==
    LET active == SelectSeq(state.filter_controls, LAMBDA control :
                                control.variable \notin {<<>>, control.default_label})
        include(record) ==
            \A c \in 1..Len(active) :
                normalized_value(accessor(active[c].identifier, record))
                    = active[c].variable
    IN  IF state.records = <<>>
        THEN state
        ELSE [state EXCEPT !.filtered_records = SelectSeq(state.records, include)]

\* _confirm of _prompt_add_filter, for a field of state.grouping_accessors
\* that has no filter yet: _create_filter_control appends the control, which
\* is filled when there are records.
add_filter(state, identifier) ==
    LET control == FilterControl(identifier, Tutti, Tutti, <<Tutti>>)
    IN  [state EXCEPT
            !.filter_controls =
                Append(@, IF state.records # <<>>
                          THEN _populate_filter_control(control, state.records)
                          ELSE control)]

\* What a call of _open_file leaves: the state, whether the records were
\* loaded and the error it lets through.
Opened(state, loaded, error) == [state |-> state, loaded |-> loaded, error |-> error]

\* The end of _open_file, once the records are there (lines 919-925).
show_records(state, excel_path, records) ==
    _apply_filters(
        _refresh_filters(
            _refresh_column_specs(
                [state EXCEPT !.records = records, !.file_path = excel_path],
                records),
            records))

\* An _open_file that clears the records before it asks for the mapping.
_open_file_clearing(state, path_str, loaded, prompted, retried) ==
    IF path_str = <<>>
    THEN Opened(state, FALSE, "")
    ELSE IF loaded.kind = "return"
    THEN Opened(show_records(state, path_str, loaded.records), TRUE, "")
    ELSE Opened([state EXCEPT !.records = <<>>, !.file_path = None], FALSE, "")

\* _open_file.  `loaded` is what the loader does, `prompted` what
\* _prompt_column_mapping does (it returns a mapping, returns None or raises)
\* and `retried` what the second load does.
_open_file(state, path_str, loaded, prompted, retried) ==
    IF path_str = <<>>
    THEN Opened(state, FALSE, "")
    ELSE IF loaded.kind = "return"
    THEN Opened(show_records(state, path_str, loaded.records), TRUE, "")
    ELSE IF loaded.error # "ColumnMappingError"
    THEN Opened(state, FALSE, "")
    ELSE IF prompted.kind = "raise"
    THEN Opened(state, FALSE, prompted.error)
    ELSE IF prompted.mapping = <<>>
    THEN Opened(state, FALSE, "")
    ELSE IF retried.kind = "return"
    THEN Opened(show_records(state, path_str, retried.records), TRUE, "")
    ELSE Opened(state, FALSE, "")

----------------------------------------------------------------------------
(* State                                                                   *)

VARIABLES
    columns,         \* the headers handed to suggest_column_mapping
    column_mapping,  \* the caller's explicit mapping (None: no mapping)
    aliases,         \* the caller's extra aliases (None: no aliases)
    pc,              \* the position of the caller
    calls,           \* per field, the outcome of _resolve_column_name
    resolved,        \* suggest_column_mapping's first result
    missing,         \* suggest_column_mapping's second result
    path_exists,     \* whether the Excel file exists
    rows,            \* the rows of the sheet, a cell per column
    outcome,         \* what load_operations_from_excel returned or raised
    dialog,          \* the mapping dialog: "none", "open" or "destroyed"
    mapping_vars,    \* per field, the value of its combobox
    feedback_var,    \* the text of the dialog's feedback label
    result,          \* the mapping the dialog hands back (None: none)
    command,         \* the last dialog command that ran
    edits,           \* how many selections the user changed
    training,        \* the training map handed to NaiveBayesColumnClassifier
    classifier,      \* the classifier built from it, or the error raised
    call,            \* the last call on the classifier or its guesser
    operations,      \* the records handed to the metrics
    summary,         \* what summarize_operations returned (None: not called)
    performances,    \* what group_by_employee returned
    window,          \* the _AppState of the main window
    event,           \* the last command of the window and what it did
    argv,            \* the argument list handed to welcome_app.run
    launch,          \* what launch_welcome_window did, if it was called
    cli_calls        \* the argument lists _run_cli was called with

resolver_vars == <<columns, column_mapping, aliases, calls, resolved, missing>>
load_vars     == <<path_exists, rows, outcome>>
dialog_vars   == <<dialog, mapping_vars, feedback_var, result, command, edits>>

classifier_vars == <<training, classifier, call>>

welcome_vars == <<argv, launch, cli_calls>>
metrics_vars == <<operations, summary, performances>>
gui_vars == <<window, event>>
app_vars == <<welcome_vars, metrics_vars, gui_vars>>

vars == <<pc, resolver_vars, load_vars, dialog_vars, classifier_vars, app_vars>>

\* No call of load_operations_from_excel has ended.
NoOutcome == [kind |-> "none", error |-> "", message |-> <<>>, records |-> <<>>]

\* No file is being loaded.
LoadIdle == path_exists = TRUE /\ rows = <<>> /\ outcome = NoOutcome

\* No mapping dialog exists.
DialogIdle ==
    /\ dialog = "none"
    /\ mapping_vars = <<>>
    /\ feedback_var = ""
    /\ result = <<>>
    /\ command = "none"
    /\ edits = 0

\* No call on the classifier has been made.
NoCall ==
    [op |-> "none", text |-> <<>>, field |-> <<>>, header |-> <<>>,
     samples |-> <<>>,
     candidates |-> Omitted, columns |-> <<>>, already_assigned |-> {},
     result |-> <<>>]

\* No classifier exists.
NoClassifier ==
    [kind |-> "none", error |-> "", message |-> "", fields |-> <<>>,
     profiles |-> <<>>, vocabulary_size |-> 0, log_prior |-> 0]

ClassifierIdle == training = <<>> /\ classifier = NoClassifier /\ call = NoCall

\* welcome_app.run has not been called.
WelcomeIdle == argv = <<>> /\ launch = "none" /\ cli_calls = <<>>

\* No metric has been computed.
MetricsIdle == operations = <<>> /\ summary = None /\ performances = <<>>

\* The main window has not been created.
NoEvent ==
    [command |-> "none", count |-> 0, loaded |-> FALSE, error |-> "",
     records |-> <<>>, before |-> <<>>]
GuiIdle == window = <<>> /\ event = NoEvent

AppIdle == WelcomeIdle /\ MetricsIdle /\ GuiIdle

----------------------------------------------------------------------------
(* Inputs                                                                  *)

MaxCols == 2

Data               == <<"D","a","t","a">>
PaddedData         == <<" ","D","A","T","A"," ">>
DataProcesso       == <<"D","a","t","a"," ","p","r","o","c","e","s","s","o">>
ProcessoPrincipale == <<"P","r","o","c","e","s","s","o"," ","p","r","i","n","c","i","p","a","l","e">>
Duration           == <<"D","u","r","a","t","i","o","n">>
Note               == <<"N","o","t","e">>
Nonexistent        == <<"N","o","n","e","x","i","s","t","e","n","t">>
other              == <<"o","t","h","e","r">>

\* The headers a sheet may carry: an alias in another case and padded, a
\* header with keywords of two fields, a header with one keyword, a header
\* that is an alias and holds no keyword, a header that matches nothing.
Headers == {Data, PaddedData, DataProcesso, ProcessoPrincipale, Duration, Note}

SeqsUpTo(S, n) == UNION {[1..k -> S] : k \in 0..n}

\* All the dicts with keys among `keys` and values in `values`.
Dicts(keys, values) == UNION {[K -> values] : K \in SUBSET keys}

\* A sheet of descriptive headers: none is an alias, each holds a keyword of
\* one required field, none holds a keyword of machine or process_type.
DataDiProduzione      == <<"D","a","t","a"," ","d","i"," ","p","r","o","d","u","z","i","o","n","e">>
OperatoreResponsabile == <<"O","p","e","r","a","t","o","r","e"," ","r","e","s","p","o","n","s","a","b","i","l","e">>
PezziProdottiTotali   == <<"P","e","z","z","i"," ","p","r","o","d","o","t","t","i"," ","t","o","t","a","l","i">>
DurataTotaleMin       == <<"D","u","r","a","t","a"," ","t","o","t","a","l","e"," ","[","m","i","n","]">>
DescriptiveSheet ==
    <<DataDiProduzione, OperatoreResponsabile, ProcessoPrincipale,
      PezziProdottiTotali, DurataTotaleMin>>

ColumnLists    == SeqsUpTo(Headers, MaxCols) \cup {DescriptiveSheet}
MappingChoices == Dicts({date, quantity}, {Note, Nonexistent})
AliasChoices   == Dicts({date, duration_minutes, other},
                        {<< <<" ","n","o","t","e">> >>})

----------------------------------------------------------------------------
(* A caller of suggest_column_mapping                                      *)

InitResolve ==
    /\ columns \in ColumnLists
    /\ column_mapping \in MappingChoices
    /\ aliases \in AliasChoices
    /\ pc = "call"
    /\ calls = <<>>
    /\ resolved = <<>>
    /\ missing = <<>>
    /\ LoadIdle
    /\ DialogIdle
    /\ ClassifierIdle
    /\ AppIdle

SuggestColumnMapping ==
    /\ pc = "call"
    /\ calls' = resolve_all(columns, column_mapping, aliases)
    /\ resolved' = resolved_of(calls')
    /\ missing' = missing_of(calls')
    /\ pc' = "returned"
    /\ UNCHANGED <<columns, column_mapping, aliases, load_vars, dialog_vars, app_vars,
                   classifier_vars>>

NextResolve == SuggestColumnMapping

SpecResolve == InitResolve /\ [][NextResolve]_vars

----------------------------------------------------------------------------
(* A caller of load_operations_from_excel                                  *)

MaxRows == 2

Operatore     == <<"O","p","e","r","a","t","o","r","e">>
Processo      == <<"P","r","o","c","e","s","s","o">>
Macchina      == <<"M","a","c","c","h","i","n","a">>
TipoProcesso  == <<"T","i","p","o"," ","p","r","o","c","e","s","s","o">>
PezziProdotti == <<"P","e","z","z","i"," ","p","r","o","d","o","t","t","i">>
DurataMin     == <<"D","u","r","a","t","a"," ","(","m","i","n",")">>

\* The sheet of the tests; a sheet has some of its columns, in this order.
FullSheet ==
    <<Data, Operatore, Processo, Macchina, TipoProcesso, PezziProdotti, DurataMin>>

Sheets ==
    {SelectSeq(FullSheet, LAMBDA header : header \in kept) : kept \in SUBSET Range(FullSheet)}

\* A row of well-typed cells, an empty row, a row of text in every column.
RowKinds == {"good", "blank", "text"}

CellOf(kind, header) ==
    CASE kind = "blank" -> "nan"
      [] kind = "text"  -> "text"
      [] OTHER -> IF header = Data THEN "day"
                  ELSE IF header \in {PezziProdotti, DurataMin} THEN "number"
                  ELSE "text"

RowsOf(names, kinds) ==
    [r \in 1..Len(kinds) |-> [i \in 1..Len(names) |-> CellOf(kinds[r], names[i])]]

LoadMappingChoices == Dicts({quantity}, {DurataMin, Nonexistent})
LoadAliasChoices   == Dicts({duration_minutes}, {<< <<" ","n","o","t","e">> >>})

InitLoad ==
    /\ columns \in Sheets
    /\ column_mapping \in LoadMappingChoices
    /\ aliases \in LoadAliasChoices
    /\ path_exists \in BOOLEAN
    /\ \E kinds \in SeqsUpTo(RowKinds, MaxRows) : rows = RowsOf(columns, kinds)
    /\ pc = "call"
    /\ calls = <<>>
    /\ resolved = <<>>
    /\ missing = <<>>
    /\ outcome = NoOutcome
    /\ DialogIdle
    /\ ClassifierIdle
    /\ AppIdle

\* A call of load_operations_from_excel.  calls, resolved and missing keep
\* what the suggest_column_mapping call inside it produced (nothing when the
\* function left before that call).
LoadOperations ==
    /\ pc = "call"
    /\ outcome' = load_operations_from_excel(path_exists, columns, rows,
                                             column_mapping, aliases)
    /\ IF path_exists /\ columns # <<>> /\ rows # <<>>
       THEN /\ calls' = resolve_all(columns, column_mapping, aliases)
            /\ resolved' = resolved_of(calls')
            /\ missing' = missing_of(calls')
       ELSE UNCHANGED <<calls, resolved, missing>>
    /\ pc' = "loaded"
    /\ UNCHANGED <<columns, column_mapping, aliases, path_exists, rows, dialog_vars, app_vars,
                   classifier_vars>>

NextLoad == LoadOperations

SpecLoad == InitLoad /\ [][NextLoad]_vars

----------------------------------------------------------------------------
(* A user of the manual column-mapping dialog                              *)

MaxEdits == 2

\* The sheets the dialog is opened for: the full sheet and the sheet without
\* its process column, without its quantity column, without optional columns.
DialogSheets ==
    {FullSheet,
     SelectSeq(FullSheet, LAMBDA header : header # Processo),
     SelectSeq(FullSheet, LAMBDA header : header # PezziProdotti),
     SelectSeq(FullSheet, LAMBDA header : header \notin {Macchina, TipoProcesso})}

\* The dialog as lines 761-838 build it: a combobox per field, in the order
\* REQUIRED_FIELDS + OPTIONAL_FIELDS, preset from suggest_column_mapping.
InitDialog ==
    /\ columns \in DialogSheets
    /\ column_mapping = None
    /\ aliases = None
    /\ calls = resolve_all(columns, None, None)
    /\ resolved = resolved_of(calls)
    /\ missing = missing_of(calls)
    /\ pc = "dialog"
    /\ LoadIdle
    /\ dialog = "open"
    /\ mapping_vars = [field \in Range(REQUIRED_FIELDS \o OPTIONAL_FIELDS) |->
                          initial_value(field, columns, resolved)]
    /\ feedback_var = ""
    /\ result = None
    /\ command = "none"
    /\ edits = 0
    /\ ClassifierIdle
    /\ AppIdle

\* The user picks another value in the combobox of a field.
Select(field, value) ==
    /\ dialog = "open"
    /\ edits < MaxEdits
    /\ value \in Range(option_values(field, columns))
    /\ value # mapping_vars[field]
    /\ mapping_vars' = [mapping_vars EXCEPT ![field] = value]
    /\ edits' = edits + 1
    /\ command' = "select"
    /\ UNCHANGED <<pc, resolver_vars, load_vars, classifier_vars, app_vars, dialog,
                   feedback_var, result>>

\* The OK button: _confirm.
Confirm ==
    /\ dialog = "open"
    /\ LET done == confirm_loop(REQUIRED_FIELDS \o OPTIONAL_FIELDS, mapping_vars,
                                <<>>, {})
       IN  IF done.feedback # ""
           THEN /\ feedback_var' = done.feedback
                /\ UNCHANGED <<result, dialog>>
           ELSE /\ result' = done.selections
                /\ dialog' = "destroyed"
                /\ UNCHANGED feedback_var
    /\ command' = "confirm"
    /\ UNCHANGED <<pc, resolver_vars, load_vars, classifier_vars, app_vars, mapping_vars,
                   edits>>

\* The Annulla button: _cancel assigns a local `result` and destroys the dialog.
Cancel ==
    /\ dialog = "open"
    /\ dialog' = "destroyed"
    /\ command' = "cancel"
    /\ UNCHANGED <<pc, resolver_vars, load_vars, classifier_vars, app_vars, mapping_vars,
                   feedback_var, result, edits>>

NextDialog ==
    \/ \E field \in Range(_CANONICAL_FIELDS) :
           \E value \in Range(columns) \cup {Seleziona, Facoltativo} :
               Select(field, value)
    \/ Confirm
    \/ Cancel

SpecDialog == InitDialog /\ [][NextDialog]_vars

----------------------------------------------------------------------------
(* A caller of the classifier and of its guesser                           *)

MaxSamples   == 3
MaxGuessCols == 3
LongRun      == 490001

\* No call of suggest_column_mapping has been made.
ResolverIdle ==
    /\ columns = <<>>
    /\ column_mapping = None
    /\ aliases = None
    /\ calls = <<>>
    /\ resolved = <<>>
    /\ missing = <<>>

\* A training map of two fields, and one whose only field has no tokens.
TinyTraining ==
    <<[field |-> date, samples |-> <<<<"d","a","t","a">>>>],
      [field |-> quantity, samples |-> <<<<"p","e","z","z","i">>, <<"1","0">>>>]>>
DegenerateTraining == <<[field |-> date, samples |-> <<>>]>>

TrainingChoices == {<<>>, DEFAULT_TRAINING_DATA, TinyTraining, DegenerateTraining}

Operator == <<"O","p","e","r","a","t","o","r">>
Hashes   == <<"#","#","#">>
Dashes   == <<"-","-">>

\* A sample without a word character, LongRun characters long.
LongDashes == SubSeq([i \in 1..LongRun |-> "-"], 1, LongRun)

\* The same, two characters shorter.
ShorterDashes == SubSeq(LongDashes, 1, LongRun - 2)

\* The values a cell sample may have: a number, a text, an empty and a blank
\* string, a number with a decimal comma, a date.
SampleTexts == {<<"1","0">>, <<"a","b","c">>, <<>>, <<" ">>, <<"1",",","5">>, <<"1","2",".","0","2",".","2","4">>}
SampleLists == SeqsUpTo(SampleTexts, MaxSamples) \cup {<<<<"1","0">>, <<"2","0">>, <<"a","b","c">>>>}

\* The headers and the samples of the column handed to score, evaluate and
\* most_likely_fields.
HeaderChoices == {PezziProdotti, Data, Operator, <<>>, Hashes}
PezziSamples  == <<<<"4","5">>, <<"1","0","0">>, <<"1","2">>>>
DataSamples   == <<<<"2","0","2","4","-","0","1","-","0","1">>, <<"0","3","/","0","2","/","2","0","2","4">>>>
ColumnSamples == {None, PezziSamples, DataSamples, <<Dashes>>, <<<<>>, <<" ">>>>}

\* The columns of a sheet handed to guess: two that differ in case only, a
\* column of dates, a header without samples, two whose quantity scores are
\* exactly 0.75 apart, one without any token.
Column(header, samples) == [header |-> header, samples |-> samples]
PezziColumn    == Column(PezziProdotti, PezziSamples)
PezziLower     == Column(casefold(PezziProdotti), PezziSamples)
DataColumn     == Column(Data, DataSamples)
OperatorColumn == Column(Operator, None)
XColumn        == Column(<<"x">>, <<<<"1","2">>, <<"z","z">>, <<>>, <<>>>>)
YColumn        == Column(<<"y">>, <<<<"a","a">>, <<"b","b">>>>)
HashColumn     == Column(Hashes, <<Dashes>>)
LongColumn     == Column(<<>>, <<LongDashes>>)
ShortColumns ==
    {PezziColumn, PezziLower, DataColumn, OperatorColumn, XColumn, YColumn,
     HashColumn}

\* The items of a mapping: no header twice.
Mappings(items, n) ==
    {m \in SeqsUpTo(items, n) :
        \A i, j \in 1..Len(m) : i # j => m[i].header # m[j].header}

GuessColumns == Mappings(ShortColumns, MaxGuessCols)
AssignedChoices ==
    {{}, {PezziProdotti}, {Data, <<"x">>},
     {c.header : c \in ShortColumns}}
GuessFields == {date, employee, quantity}

CandidateChoices ==
    {Omitted} \cup {Given(list) : list \in SeqsUpTo({date, quantity}, 3)}

InitGuesser ==
    /\ training \in TrainingChoices
    /\ classifier = NoClassifier
    /\ call = NoCall
    /\ pc = "new"
    /\ ResolverIdle
    /\ LoadIdle
    /\ DialogIdle
    /\ AppIdle

\* NaiveBayesColumnClassifier(training)
Construct ==
    /\ pc = "new"
    /\ classifier' = NaiveBayesColumnClassifier(training)
    /\ pc' = IF classifier'.kind = "raise" THEN "failed" ELSE "ready"
    /\ UNCHANGED <<training, call, resolver_vars, load_vars, dialog_vars, app_vars>>

\* The caller makes one call on the instance and keeps what it returned.
Called(new_call) ==
    /\ call' = new_call
    /\ pc' = "called"
    /\ UNCHANGED <<training, classifier, resolver_vars, load_vars, dialog_vars, app_vars>>

\* classifier.score(field, header=header, samples=samples)
Score(field, header, samples) ==
    /\ pc = "ready"
    /\ field \in Range(classifier.fields)
    /\ Called([NoCall EXCEPT
           !.op = "score", !.field = field, !.header = header,
           !.samples = samples,
           !.result = score(classifier, field, header, samples)])

\* classifier.most_likely_fields(header=header, samples=samples,
\* candidates=candidates)
MostLikelyFields(header, samples, candidates) ==
    /\ pc = "ready"
    /\ Range(candidates.list) \subseteq Range(classifier.fields)
    /\ Called([NoCall EXCEPT
           !.op = "most_likely_fields", !.header = header, !.samples = samples,
           !.candidates = candidates,
           !.result = most_likely_fields(classifier, header, samples, candidates)])

\* analyse_samples(samples)
AnalyseSamples(samples) ==
    /\ pc = "ready"
    /\ Called([NoCall EXCEPT
           !.op = "analyse_samples", !.samples = samples,
           !.result = analyse_samples(samples)])

\* ColumnGuesser(classifier).evaluate(field=field, header=header,
\* samples=samples)
Evaluate(field, header, samples) ==
    /\ pc = "ready"
    /\ field \in Range(classifier.fields)
    /\ Called([NoCall EXCEPT
           !.op = "evaluate", !.field = field, !.header = header,
           !.samples = samples,
           !.result = evaluate(classifier, field, header, samples)])

\* ColumnGuesser(classifier).guess(field=field, columns=columns,
\* already_assigned=already_assigned)
Guess(field, sheet, already_assigned) ==
    /\ pc = "ready"
    /\ field \in Range(classifier.fields)
    /\ Called([NoCall EXCEPT
           !.op = "guess", !.field = field, !.columns = sheet,
           !.already_assigned = already_assigned,
           !.result = guess(classifier, field, sheet, already_assigned)])

NextGuesser ==
    \/ Construct
    \/ \E field \in Range(_CANONICAL_FIELDS), header \in HeaderChoices,
          samples \in ColumnSamples :
           Score(field, header, samples)
    \/ \E header \in HeaderChoices, samples \in ColumnSamples,
          candidates \in CandidateChoices :
           MostLikelyFields(header, samples, candidates)
    \/ \E samples \in SampleLists : AnalyseSamples(samples)
    \/ \E field \in Range(_CANONICAL_FIELDS), header \in HeaderChoices,
          samples \in ColumnSamples :
           Evaluate(field, header, samples)
    \/ \E samples \in {<<LongDashes>>, <<ShorterDashes>>} :
           Evaluate(employee, LongColumn.header, samples)
    \/ \E field \in GuessFields, sheet \in GuessColumns,
          already_assigned \in AssignedChoices :
           Guess(field, sheet, already_assigned)
    \/ Guess(employee, <<LongColumn>>, {})

SpecGuesser == InitGuesser /\ [][NextGuesser]_vars

----------------------------------------------------------------------------
(* A caller of the tokenizer                                               *)

MaxText == 3

\* The characters of a text: letters of both cases, an accented letter, the
\* dotless i, a digit, the underscore, a hyphen and a space.
TextChars == {"a", "B", "à", DotlessI, "7", "_", "-", " "}
Texts     == SeqsUpTo(TextChars, MaxText)

InitTokenize ==
    /\ pc = "new"
    /\ ResolverIdle
    /\ LoadIdle
    /\ DialogIdle
    /\ ClassifierIdle
    /\ AppIdle

\* _tokenize(text)
Tokenize(text) ==
    /\ pc = "new"
    /\ Called([NoCall EXCEPT
           !.op = "_tokenize", !.text = text, !.result = _tokenize(text)])

NextTokenize == \E text \in Texts : Tokenize(text)

SpecTokenize == InitTokenize /\ [][NextTokenize]_vars

----------------------------------------------------------------------------
(* A caller of welcome_app.run                                             *)

MaxArgs == 3

TruMetraPla == <<"T","r","u","M","e","t","r","a","P","l","a">>
python      == <<"p","y","t","h","o","n">>
report      == <<"r","e","p","o","r","t">>
FileXlsx    == <<"f","i","l","e",".","x","l","s","x">>

\* argv[0] is the program; the other arguments are control flags, the
\* tokens of `python -m trumetrapla` and the words of a CLI command.
ArgTokens == {DashM, trumetrapla, CliFlag, NoGuiFlag, GuiFlag, report, FileXlsx}
ArgLists ==
    {<<>>} \cup {<<program>> \o rest :
                    program \in {TruMetraPla, python},
                    rest \in SeqsUpTo(ArgTokens, MaxArgs)}

\* What launch_welcome_window does when it is called.
LaunchOutcomes == {"returned", "GUIUnavailableError", "TclError"}

InitWelcome ==
    /\ pc = "new"
    /\ ResolverIdle
    /\ LoadIdle
    /\ DialogIdle
    /\ ClassifierIdle
    /\ AppIdle

\* welcome_app.run(arguments)
Run(arguments, outcome_of_launch) ==
    LET done(ran) ==
            /\ argv' = arguments
            /\ launch' = IF ran.launched THEN outcome_of_launch ELSE "none"
            /\ cli_calls' = ran.cli_calls
            /\ pc' = IF ran.error = "" THEN "returned" ELSE "raised"
    IN  /\ pc = "new"
        /\ done(run(arguments, outcome_of_launch))
        /\ UNCHANGED <<resolver_vars, load_vars, dialog_vars, classifier_vars,
                       metrics_vars, gui_vars>>

NextWelcome ==
    \E arguments \in ArgLists, outcome_of_launch \in LaunchOutcomes :
        Run(arguments, outcome_of_launch)

SpecWelcome == InitWelcome /\ [][NextWelcome]_vars

----------------------------------------------------------------------------
(* A caller of the metrics                                                 *)

MaxRecords == 3

Mario == <<"M","a","r","i","o">>
Luigi == <<"L","u","i","g","i">>
Anna  == <<"A","n","n","a">>
Taglio    == <<"T","a","g","l","i","o">>
Piegatura == <<"P","i","e","g","a","t","u","r","a">>

Minutes(n) == ratio(n, 1)

\* The records of a sheet: three rows of three employees, a row without
\* pieces, rows with no, negative and blank minutes.
Row(employee_name, process_name, pieces, minutes) ==
    OperationRecord(employee_name, process_name, <<>>, <<>>, pieces, minutes, <<>>)
RecordChoices ==
    {Row(Mario, Taglio, 120, Minutes(90)),
     Row(Luigi, Piegatura, 80, Minutes(120)),
     Row(Mario, Piegatura, 60, Minutes(60)),
     Row(Anna, Taglio, 60, Minutes(30)),
     Row(Anna, Taglio, 0, Minutes(45)),
     Row(Luigi, Taglio, 10, Minutes(0)),
     Row(Mario, Taglio, 5, Minutes(0 - 30)),
     Row(Anna, Piegatura, 7, NaN)}
RecordLists == SeqsUpTo(RecordChoices, MaxRecords)

InitMetrics ==
    /\ pc = "new"
    /\ operations \in RecordLists
    /\ summary = None
    /\ performances = <<>>
    /\ WelcomeIdle
    /\ GuiIdle
    /\ ResolverIdle
    /\ LoadIdle
    /\ DialogIdle
    /\ ClassifierIdle

\* summary = summarize_operations(records)
Summarize ==
    /\ pc = "new"
    /\ summary' = summarize_operations(operations)
    /\ pc' = "summarized"
    /\ UNCHANGED <<operations, performances, welcome_vars, gui_vars,
                   resolver_vars, load_vars, dialog_vars, classifier_vars>>

\* group_by_employee(records)
GroupByEmployee ==
    /\ pc = "summarized"
    /\ performances' = group_by_employee(operations)
    /\ pc' = "grouped"
    /\ UNCHANGED <<operations, summary, welcome_vars, gui_vars, resolver_vars,
                   load_vars, dialog_vars, classifier_vars>>

NextMetrics == Summarize \/ GroupByEmployee

SpecMetrics == InitMetrics /\ [][NextMetrics]_vars

----------------------------------------------------------------------------
(* A user of the main window                                               *)

MaxCommands == 3

Laser    == <<"L","a","s","e","r">>
Turno    == <<"T","u","r","n","o">>
Notte    == <<"N","o","t","t","e">>
NoteBang == <<"N","o","t","e","!">>
Note1    == <<"n","o","t","e"," ","1">>
Pezzi    == <<"P","e","z","z","i">>
AccentedLabel == <<"à", "à">>
Shift    == <<"s","h","i","f","t">>
Plain    == <<"p","l","a","i","n">>

Extra(key, value) == [key |-> key, value |-> value]

\* The sheets the loader may return.  ShiftRecords has three extra columns
\* whose labels give the same token, a blank and a "nan" cell; in PezziRecords
\* an extra column is named as a canonical label and another has no letter
\* or digit a slug keeps; PlainRecords has no extra column.
ShiftRecords ==
    <<OperationRecord(Anna, Taglio, Laser, Taglio, 20, Minutes(45),
                      <<Extra(Note, Notte), Extra(NoteBang, <<" ">>), Extra(Note1, Turno)>>),
      OperationRecord(Luigi, Piegatura, <<>>, Piegatura, 8, Minutes(90),
                      <<Extra(Note, nan_text), Extra(NoteBang, Notte), Extra(Note1, Turno)>>),
      OperationRecord(Anna, Piegatura, Laser, Piegatura, 10, Minutes(60),
                      <<Extra(Note, Notte), Extra(NoteBang, Notte), Extra(Note1, Turno)>>)>>
PezziRecords ==
    <<OperationRecord(Mario, Taglio, Laser, <<>>, 5, Minutes(30),
                      <<Extra(Pezzi, Notte), Extra(AccentedLabel, Turno)>>),
      OperationRecord(Mario, Taglio, Laser, <<>>, 5, Minutes(30),
                      <<Extra(Pezzi, Notte), Extra(AccentedLabel, Turno)>>)>>
PlainRecords ==
    <<OperationRecord(Mario, Taglio, <<>>, <<>>, 120, Minutes(90), <<>>),
      OperationRecord(Luigi, Piegatura, <<>>, <<>>, 80, Minutes(120), <<>>)>>
Sheets_ == {<<>>, ShiftRecords, PezziRecords, PlainRecords}

\* What the file dialog returns: nothing, or the path of a sheet.
PathChoices == {<<>>, Shift, Plain}

LoaderOutcomes ==
    {ReturnRecords(records) : records \in Sheets_}
        \cup {RaiseError(error, <<>>) :
                 error \in {"FileNotFoundError", "ColumnMappingError", "ValueError"}}

\* What _prompt_column_mapping does: it raises (pandas is missing, or
\* suggest_column_mapping rejects the argument column_samples of line 774),
\* returns None (the sheet cannot be read, has no header or the dialog is
\* cancelled) or returns the mapping of the dialog.
Prompted(kind, error, mapping) == [kind |-> kind, error |-> error, mapping |-> mapping]
PromptOutcomes ==
    {Prompted("raise", "GUIUnavailableError", None),
     Prompted("raise", "TypeError", None),
     Prompted("return", "", None),
     Prompted("return", "", [field \in {date} |-> Note])}

RetryOutcomes ==
    {ReturnRecords(PlainRecords), RaiseError("ColumnMappingError", <<>>),
     RaiseError("KeyError", <<>>)}

InitWindow ==
    /\ pc = "window"
    /\ window = _AppState
    /\ event = NoEvent
    /\ WelcomeIdle
    /\ MetricsIdle
    /\ ResolverIdle
    /\ LoadIdle
    /\ DialogIdle
    /\ ClassifierIdle

\* The user runs a command of the window.
Command(name, state, loaded, error, records) ==
    /\ pc = "window"
    /\ event.count < MaxCommands
    /\ window' = state
    /\ event' = [command |-> name, count |-> event.count + 1, loaded |-> loaded,
                 error |-> error, records |-> records, before |-> window]
    /\ UNCHANGED <<pc, welcome_vars, metrics_vars, resolver_vars, load_vars,
                   dialog_vars, classifier_vars>>

\* commands["open_file"]()
OpenFile(path_str, loaded, prompted, retried) ==
    LET done(opened) ==
            Command("open_file", opened.state, opened.loaded, opened.error,
                    IF ~opened.loaded THEN <<>>
                    ELSE IF loaded.kind = "return" THEN loaded.records
                    ELSE retried.records)
    IN  done(_open_file(window, path_str, loaded, prompted, retried))

\* commands["apply_filters"]()
ApplyFilters == Command("apply_filters", _apply_filters(window), FALSE, "", <<>>)

\* The user picks a value in the combobox of a filter: the variable takes
\* the value and _on_change runs _apply_filters.
SelectFilter(c, value) ==
    /\ c \in 1..Len(window.filter_controls)
    /\ value \in Range(window.filter_controls[c].values)
    /\ Command("select_filter",
               _apply_filters([window EXCEPT !.filter_controls[c].variable = value]),
               FALSE, "", <<>>)

\* The user adds the filter of an extra column ("Aggiungi campo filtro").
AddFilter(identifier) ==
    /\ identifier \in Range(window.grouping_accessors)
    /\ \A c \in 1..Len(window.filter_controls) :
           window.filter_controls[c].identifier # identifier
    /\ Command("add_filter", add_filter(window, identifier), FALSE, "", <<>>)

FilterValues ==
    {Tutti, Tutte, missing_label, Anna, Luigi, Mario, Taglio, Piegatura, Laser,
     Notte, Turno}

NextWindow ==
    \/ \E path_str \in PathChoices, loaded \in LoaderOutcomes,
          prompted \in PromptOutcomes, retried \in RetryOutcomes :
           OpenFile(path_str, loaded, prompted, retried)
    \/ ApplyFilters
    \/ \E c \in 1..5, value \in FilterValues : SelectFilter(c, value)
    \/ \E column \in {Note, NoteBang, Pezzi} : AddFilter(grouping_key_of(column))

SpecWindow == InitWindow /\ [][NextWindow]_vars

----------------------------------------------------------------------------
(* Claims about the column resolver, checked under SpecResolve             *)

CanonicalFields == Range(_CANONICAL_FIELDS)

\* The canonical fields the explicit mapping names / does not name.
MappedFields   == DOMAIN column_mapping \cap CanonicalFields
UnmappedFields == CanonicalFields \ DOMAIN column_mapping

\* Trim and casefold make the two strings equal.
SameToken(a, b) == _normalize_token(a) = _normalize_token(b)

\* The alias candidates _resolve_column_name receives for a field.
AliasesFor(field) == Range(Get(merged_aliases(aliases), field, <<>>))

\* The positions of the headers equal to some alias in `candidates`.
AliasPositions(candidates) ==
    {i \in 1..Len(columns) : \E a \in candidates : SameToken(a, columns[i])}

\* The positions of the headers that contain a keyword of the field.
KeywordPositions(field) ==
    {i \in 1..Len(columns) :
        \E keyword \in Range(Get(_FIELD_KEYWORDS, field, <<>>)) :
            /\ _normalize_token(keyword) # <<>>
            /\ Contains(_normalize_token(columns[i]), _normalize_token(keyword))}

\* C1: a field named by column_mapping is decided by the mapping alone: the
\* named column is returned when it is available; otherwise the call raises
\* ColumnMappingError with a message that mentions the field and the column,
\* without trying aliases or keywords.
C1_ExplicitMappingDecides ==
    pc = "returned" =>
        \A field \in MappedFields :
            LET candidate == column_mapping[field]
            IN  IF candidate \in Range(columns)
                THEN /\ calls[field].kind = "return"
                     /\ calls[field].value = candidate
                ELSE /\ calls[field].kind = "raise"
                     /\ calls[field].via = "explicit"
                     /\ Contains(calls[field].message, field)
                     /\ Contains(calls[field].message, candidate)

\* C1 witness: date is mapped to an absent column while the header "Data"
\* equals an alias of date and contains a keyword of date; the call raised.
C1_Witness ==
    /\ pc = "returned"
    /\ date \in MappedFields
    /\ column_mapping[date] \notin Range(columns)
    /\ AliasPositions(AliasesFor(date)) # {}
    /\ KeywordPositions(date) # {}
    /\ calls[date].kind = "raise"

\* C2: for a field without explicit mapping, when some alias equals some
\* header after trim and casefold, the call returns such a header through the
\* alias step, also when an earlier column contains a keyword of the field.
C2_AliasBeforeKeyword ==
    pc = "returned" =>
        \A field \in UnmappedFields :
            LET hits == AliasPositions(AliasesFor(field))
            IN  hits # {} =>
                    /\ calls[field].kind = "return"
                    /\ calls[field].via = "alias"
                    /\ \E i \in hits : calls[field].value = columns[i]

\* C2 witness: an earlier column contains a keyword of date without being an
\* alias, a later column equals an alias, and the later one is returned.
C2_Witness ==
    /\ pc = "returned"
    /\ date \in UnmappedFields
    /\ \E i \in AliasPositions(AliasesFor(date)) :
           /\ calls[date].value = columns[i]
           /\ \E j \in KeywordPositions(date) \ AliasPositions(AliasesFor(date)) :
                  j < i /\ columns[j] # columns[i]

\* C3: for a field without explicit mapping and without alias match, the
\* call returns the first column, in column order, whose normalized header
\* contains a keyword of the field.
C3_FirstKeywordColumn ==
    pc = "returned" =>
        \A field \in UnmappedFields :
            LET hits == KeywordPositions(field)
            IN  (AliasPositions(AliasesFor(field)) = {} /\ hits # {}) =>
                    /\ calls[field].kind = "return"
                    /\ \E i \in hits :
                           /\ \A j \in hits : i <= j
                           /\ calls[field].value = columns[i]

\* C3 witness: two different columns contain a keyword of process, none is
\* an alias, and the first of them is returned.
C3_Witness ==
    /\ pc = "returned"
    /\ process \in UnmappedFields
    /\ AliasPositions(AliasesFor(process)) = {}
    /\ \E i, j \in KeywordPositions(process) :
           i < j /\ columns[i] # columns[j] /\ calls[process].value = columns[i]

\* C4: extra aliases are merged with the defaults: a header equal to a
\* default alias of a field is still resolved by the alias step when the
\* caller passes extra aliases for that field.
C4_ExtraAliasesMerged ==
    pc = "returned" =>
        \A field \in UnmappedFields \cap DOMAIN aliases :
            LET hits == AliasPositions(Range(Get(_DEFAULT_COLUMN_ALIASES, field, <<>>)))
            IN  hits # {} =>
                    /\ calls[field].kind = "return"
                    /\ calls[field].via = "alias"

\* C5: resolved and missing partition the seven canonical fields, and
\* missing lists its fields once each, in canonical order.
C5_ResolvedMissingPartition ==
    pc = "returned" =>
        /\ DOMAIN resolved \subseteq CanonicalFields
        /\ Range(missing) \subseteq CanonicalFields
        /\ \A field \in CanonicalFields :
               (field \in DOMAIN resolved) # (field \in Range(missing))
        /\ \A i, j \in 1..Len(missing) :
               i < j =>
                   \E a, b \in 1..Len(_CANONICAL_FIELDS) :
                       /\ a < b
                       /\ _CANONICAL_FIELDS[a] = missing[i]
                       /\ _CANONICAL_FIELDS[b] = missing[j]

\* C5 witness: one field failed on its explicit mapping, another was matched
\* by no strategy, a third was resolved.
C5_Witness ==
    /\ pc = "returned"
    /\ \E f, g \in Range(missing) :
           calls[f].via = "explicit" /\ calls[g].via = "none"
    /\ DOMAIN resolved # {}

\* C6: a field with no explicit mapping, no alias equal to a header and no
\* keyword inside a header makes the call raise ColumnMappingError (naming
\* the field); the field is then in missing and not a key of resolved.
C6_UnmatchedFieldIsMissing ==
    pc = "returned" =>
        \A field \in UnmappedFields :
            (AliasPositions(AliasesFor(field)) = {} /\ KeywordPositions(field) = {}) =>
                /\ calls[field].kind = "raise"
                /\ Contains(calls[field].message, field)
                /\ field \in Range(missing)
                /\ field \notin DOMAIN resolved

\* C6 witness: the sheet has columns, none of them quantity-like, and
\* quantity is reported missing.
C6_Witness ==
    /\ pc = "returned"
    /\ columns # <<>>
    /\ quantity \in UnmappedFields
    /\ AliasPositions(AliasesFor(quantity)) = {}
    /\ KeywordPositions(quantity) = {}
    /\ quantity \in Range(missing)
    /\ DOMAIN resolved # {}

\* The columns selected for a field: the explicitly mapped column or
\* (without explicit mapping) those equal to an alias or holding a keyword.
SelectedColumns(field) ==
    IF field \in MappedFields
    THEN {column_mapping[field]} \cap Range(columns)
    ELSE {columns[i] : i \in AliasPositions(AliasesFor(field))
                             \cup KeywordPositions(field)}

\* No column is selected for two different fields.
NoSharedColumn ==
    LET selected == [field \in CanonicalFields |-> SelectedColumns(field)]
    IN  \A f, g \in CanonicalFields : f # g => selected[f] \cap selected[g] = {}

Injective(mapping) ==
    \A f, g \in DOMAIN mapping : f # g => mapping[f] # mapping[g]

\* C7 as stated: the resolved mapping is injective for every column list,
\* explicit mapping and aliases.
C7_ResolvedInjective == pc = "returned" => Injective(resolved)

\* C7 amended: the resolved mapping is injective whenever no available column
\* is selected (explicit mapping, alias or keyword) for two different fields.
C7_InjectiveUnlessSharedColumn ==
    pc = "returned" => (Injective(resolved) \/ ~NoSharedColumn)

\* C7 witness: two fields are resolved, and no column is selected for two
\* fields, while some field is matched by no column at all.
C7_Witness ==
    /\ pc = "returned"
    /\ Cardinality(DOMAIN resolved) >= 2
    /\ missing # <<>>
    /\ NoSharedColumn

----------------------------------------------------------------------------
(* Claims about the mapping dialog, checked under SpecDialog               *)

\* The combobox of the field shows a column, not a placeholder.
ColumnChosen(field) == mapping_vars[field] \in Range(columns)

AllRequiredChosen == \A field \in Range(REQUIRED_FIELDS) : ColumnChosen(field)

SomeColumnChosenTwice ==
    \E f, g \in CanonicalFields :
        f # g /\ ColumnChosen(f) /\ ColumnChosen(g) /\ mapping_vars[f] = mapping_vars[g]

----------------------------------------------------------------------------
(* Claims about load_operations_from_excel, checked under SpecLoad         *)

\* The call got as far as suggest_column_mapping.
Suggested == pc = "loaded" /\ calls # <<>>

\* Every row is well typed: a date, numbers for quantity and duration.
WellTyped == rows = RowsOf(columns, [r \in 1..Len(rows) |-> "good"])

\* C9: loading succeeds when the five required fields resolve and only
\* optional fields are unresolved, and every record then carries "" for each
\* unresolved optional field.
C9_OptionalFieldsNotMandatory ==
    (/\ Suggested
     /\ WellTyped
     /\ Range(REQUIRED_FIELDS) \subseteq DOMAIN resolved
     /\ missing # <<>>
     /\ Range(missing) \subseteq Range(OPTIONAL_FIELDS))
    => /\ outcome.kind = "return"
       /\ \A r \in 1..Len(outcome.records) : \A field \in Range(missing) :
              outcome.records[r].values[field] = ""

\* The text lists the field: the name stands between a space and a comma or
\* a full stop (process_type does not list process).
Lists(text, field) ==
    \E i \in 0..(Len(text) - Len(field)) :
        /\ \A j \in 1..Len(field) : text[i + j] = field[j]
        /\ i = 0 \/ text[i] = " "
        /\ i + Len(field) = Len(text) \/ text[i + Len(field) + 1] \in {",", "."}

\* Loading failed because fields could not be resolved.
FailedOnMissing ==
    /\ Suggested
    /\ missing # <<>>
    /\ outcome.kind = "raise"
    /\ outcome.error = "ColumnMappingError"

\* C10: when loading fails because fields could not be resolved, the message
\* lists every unresolved required field and no resolved field.
C10_MessageListsUnresolved ==
    FailedOnMissing =>
        /\ \A field \in Range(REQUIRED_FIELDS) \ DOMAIN resolved :
               Lists(outcome.message, field)
        /\ \A field \in DOMAIN resolved : ~Lists(outcome.message, field)

\* C10 witness: quantity and duration_minutes are unresolved, machine,
\* process_type and process are resolved, and loading failed.
C10_Witness ==
    /\ FailedOnMissing
    /\ {quantity, duration_minutes} \subseteq Range(missing)
    /\ {machine, process_type, process} \subseteq DOMAIN resolved

----------------------------------------------------------------------------
(* More claims about the column resolver, checked under SpecResolve        *)

\* The call of the example: the five descriptive headers, no explicit
\* mapping, no extra aliases.
DescriptiveCall ==
    /\ pc = "returned"
    /\ columns = DescriptiveSheet
    /\ column_mapping = None
    /\ aliases = None

\* Every required field went to its own descriptive header by keyword.
RequiredByKeyword ==
    /\ resolved = [field \in Range(REQUIRED_FIELDS) |->
                      CASE field = date             -> DataDiProduzione
                        [] field = employee         -> OperatoreResponsabile
                        [] field = process          -> ProcessoPrincipale
                        [] field = quantity         -> PezziProdottiTotali
                        [] field = duration_minutes -> DurataTotaleMin]
    /\ \A field \in Range(REQUIRED_FIELDS) : calls[field].via = "keyword"

\* C11 as stated: for the five descriptive headers without mapping and
\* aliases, the five required fields resolve to their headers by keyword and
\* the missing list is empty.
C11_DescriptiveHeadersNoneMissing ==
    DescriptiveCall => (RequiredByKeyword /\ missing = <<>>)

\* C11 amended: for the five descriptive headers without mapping and aliases,
\* the five required fields resolve to their headers by keyword, and the
\* missing list holds the two optional fields, machine and process_type.
C11_DescriptiveHeadersOptionalMissing ==
    DescriptiveCall => (RequiredByKeyword /\ missing = <<machine, process_type>>)

\* C11 witness: the call of the example has returned.
C11_Witness == DescriptiveCall /\ Len(missing) = 2 /\ Cardinality(DOMAIN resolved) = 5

\* The headers as the mapping guess takes: each header once, in the order of
\* its first occurrence, without samples.
WithoutSamples(headers) ==
    LET firsts == SelectSeq([i \in 1..Len(headers) |-> i],
                            LAMBDA i : \A j \in 1..(i - 1) : headers[j] # headers[i])
    IN  [k \in 1..Len(firsts) |-> Column(headers[firsts[k]], None)]

\* C12: a field that explicit mapping, aliases and keywords leave unmatched
\* is reported as unresolved only after the guesser was consulted: the
\* guesser, asked for the field over the columns no field resolved to,
\* returns no header.
C12_GuesserBeforeUnresolved ==
    pc = "returned" =>
        \A field \in Range(missing) :
            calls[field].via = "none" =>
                guess(build_default_guesser, field, WithoutSamples(columns),
                      {resolved[f] : f \in DOMAIN resolved}).column_is_none

----------------------------------------------------------------------------
(* Claims about the classifier and its guesser, checked under SpecGuesser  *)

\* The positions of the columns guess may pick: those not already assigned.
Eligible == {i \in 1..Len(call.columns) :
                call.columns[i].header \notin call.already_assigned}

\* The evaluate score of every column of the call, for the field of the call.
ColumnScores ==
    [i \in 1..Len(call.columns) |->
        evaluate(classifier, call.field, call.columns[i].header,
                 call.columns[i].samples)]

\* The highest score among the positions S, -inf for none.
Highest(scores, S) == IF S = {} THEN NegInf ELSE Max({scores[i] : i \in S})

Floor  == (0 - 20) * Scale
Margin == (3 * Scale) \div 4

\* C13: guess returns a header iff some column is eligible, the best score is
\* at least -20 and it is at least 0.75 above the second best (-inf with one
\* eligible column); the header is then the only eligible column with the
\* best score; a rejected guess over eligible columns is (None, best score).
C13_GuessAcceptsIffConfident ==
    call.op = "guess" =>
        LET scores == ColumnScores
            best == Highest(scores, Eligible)
            winners == {i \in Eligible : scores[i] = best}
            second == Highest(scores, Eligible \ {CHOOSE i \in winners : TRUE})
            accepted == /\ Eligible # {}
                        /\ best >= Floor
                        /\ minus(best, second) >= Margin
        IN  /\ ~call.result.column_is_none <=> accepted
            /\ accepted =>
                   /\ Cardinality(winners) = 1
                   /\ \A i \in winners :
                          call.result = Guessed(call.columns[i].header, best)
            /\ (Eligible # {} /\ ~accepted) => call.result = NotGuessed(best)

\* C13 witness: among three eligible columns guess returned the one that is
\* exactly 0.75 ahead of the second best.
C13_Witness ==
    /\ call.op = "guess"
    /\ Cardinality(Eligible) = 3
    /\ ~call.result.column_is_none
    /\ LET scores == ColumnScores
       IN  \E i, j \in Eligible :
               /\ call.columns[i].header = call.result.column
               /\ scores[i] - scores[j] = Margin

\* The sheet of the call without its already assigned columns.
EligibleColumns ==
    SelectSeq(call.columns, LAMBDA c : c.header \notin call.already_assigned)

\* C14: guess never returns an already assigned header, it returns what it
\* returns for the sheet without the assigned columns, and (None, -inf) when
\* no column is left.
C14_AssignedColumnsIgnored ==
    call.op = "guess" =>
        /\ ~call.result.column_is_none =>
               call.result.column \notin call.already_assigned
        /\ call.result = guess(classifier, call.field, EligibleColumns, {})
        /\ Eligible = {} => call.result = NotGuessed(NegInf)

\* C14 witness: the column with the highest score is assigned, and guess
\* returned another one.
C14_Witness ==
    /\ call.op = "guess"
    /\ ~call.result.column_is_none
    /\ LET scores == ColumnScores
       IN  \E i \in 1..Len(call.columns) :
               /\ call.columns[i].header \in call.already_assigned
               /\ scores[i] > call.result.score

\* The column holds no token: neither its header nor its samples do.
Tokenless(header, samples) ==
    _tokenize(header) = <<>> /\ \A i \in 1..Len(samples) : _tokenize(samples[i]) = <<>>

\* The stripped samples of the column are, on average, less than 490000
\* characters long: 0.002 * 490000 is the distance from -1000 to -20.
ShortSamples(samples) ==
    LET text_length == analyse_samples(samples).text_length
    IN  2 * text_length.numerator < (1000 - 20) * 1000 * text_length.denominator

\* The column guess returned, if it returned one.
ReturnedColumns ==
    {c \in Range(call.columns) :
        ~call.result.column_is_none /\ c.header = call.result.column}

\* C15 as stated: evaluate never returns an infinite score, a column without
\* tokens scores below -20, and guess never returns such a column.
C15_TokenlessNeverGuessed ==
    /\ call.op = "evaluate" =>
           /\ isfinite(call.result)
           /\ Tokenless(call.header, call.samples) => call.result < Floor
    /\ call.op = "guess" =>
           \A c \in ReturnedColumns : ~Tokenless(c.header, c.samples)

\* C15 amended: evaluate never returns an infinite score; a column without
\* tokens whose samples are on average less than 490000 characters long scores
\* below -20, and guess never returns such a column.
C15_ShortTokenlessNeverGuessed ==
    /\ call.op = "evaluate" =>
           /\ isfinite(call.result)
           /\ (Tokenless(call.header, call.samples) /\ ShortSamples(call.samples)) =>
                  call.result < Floor
    /\ call.op = "guess" =>
           \A c \in ReturnedColumns :
               ~(Tokenless(c.header, c.samples) /\ ShortSamples(c.samples))

\* C15 witness: evaluate was called for a textual field on a column without
\* tokens whose sample is not empty, and scored it a little above -1000.
C15_Witness ==
    /\ call.op = "evaluate"
    /\ call.field = employee
    /\ Tokenless(call.header, call.samples)
    /\ call.samples = <<Dashes>>
    /\ call.result > (0 - 1000) * Scale
    /\ call.result < Floor

EvidenceTokens(header, samples) ==
    _tokenize(header)
        \o concat([i \in 1..Len(samples) |->
                      IF samples[i] # <<>> THEN _tokenize(samples[i]) ELSE <<>>])

\* How often the token occurs in the training samples of the field.
TrainingCount(field, token) ==
    LET item == CHOOSE item \in Range(training) : item.field = field
        tokens == concat([i \in 1..Len(item.samples) |-> _tokenize(item.samples[i])])
    IN  Cardinality({i \in 1..Len(tokens) : tokens[i] = token})

\* The number of tokens in the training samples of the field.
TrainingTotal(field) ==
    LET item == CHOOSE item \in Range(training) : item.field = field
    IN  sum([i \in 1..Len(item.samples) |-> Len(_tokenize(item.samples[i]))])

\* The number of distinct tokens in all training samples, at least 1.
VocabularySize ==
    LET tokens_of(item) ==
            UNION {Range(_tokenize(item.samples[i])) : i \in 1..Len(item.samples)}
    IN  Max({1, Cardinality(UNION {tokens_of(item) : item \in Range(training)})})

\* C17: score is -inf iff the header and the non-empty samples hold no token;
\* otherwise it is finite: log(1 / number of fields) plus, for every token
\* occurrence, log((count in the field + 1) / (field total + vocabulary size)).
C17_ScoreIsSmoothedLogLikelihood ==
    call.op = "score" =>
        LET tokens == EvidenceTokens(call.header, call.samples)
            denominator == TrainingTotal(call.field) + VocabularySize
            term(token) == math_log(TrainingCount(call.field, token) + 1, denominator)
            total == sum([i \in 1..Len(tokens) |-> term(tokens[i])])
        IN  /\ call.result = NegInf <=> tokens = <<>>
            /\ tokens # <<>> =>
                   /\ isfinite(call.result)
                   /\ call.result = math_log(1, Len(training)) + total

\* C17 witness: a header with a token the field was trained on, samples with
\* tokens it was not trained on, and a finite score.
C17_Witness ==
    /\ call.op = "score"
    /\ call.field = quantity
    /\ call.header = PezziProdotti
    /\ call.samples = PezziSamples
    /\ TrainingCount(quantity, <<"p","e","z","z","i">>) = 2
    /\ TrainingCount(quantity, <<"1","2">>) = 0
    /\ isfinite(call.result)

\* The fields most_likely_fields was asked to score.
CandidateFields ==
    IF call.candidates.given THEN call.candidates.list ELSE classifier.fields

FieldsOf(pairs) == [i \in 1..Len(pairs) |-> pairs[i].field]

\* C18: most_likely_fields returns one (field, score) pair per candidate (per
\* known field without candidates), each with the score of its field, in
\* non-increasing order of score, pairs of equal score in input order.
C18_RankingIsStableDescending ==
    call.op = "most_likely_fields" =>
        LET fields == CandidateFields
            value == [field \in Range(fields) |->
                         score(classifier, field, call.header, call.samples)]
            ranking == call.result
        IN  /\ Len(ranking) = Len(fields)
            /\ \A k \in 1..Len(ranking) :
                   /\ ranking[k].field \in Range(fields)
                   /\ ranking[k].score = value[ranking[k].field]
            /\ \A k \in 1..(Len(ranking) - 1) :
                   ranking[k].score >= ranking[k + 1].score
            /\ \A s \in {value[field] : field \in Range(fields)} :
                   FieldsOf(SelectSeq(ranking, LAMBDA pair : pair.score = s))
                       = SelectSeq(fields, LAMBDA field : value[field] = s)

\* C18 witness: all seven fields were ranked, two different fields with the
\* same score and two with different scores among them.
C18_Witness ==
    /\ call.op = "most_likely_fields"
    /\ ~call.candidates.given
    /\ Len(call.result) = 7
    /\ \E k \in 1..6 :
           /\ call.result[k].score = call.result[k + 1].score
           /\ isfinite(call.result[k].score)
    /\ \E k \in 1..6 : call.result[k].score > call.result[k + 1].score

\* The call of the example: the embedded corpus, header "Pezzi prodotti",
\* samples "45", "100" and "12".
PezziCall ==
    /\ call.op = "most_likely_fields"
    /\ training = DEFAULT_TRAINING_DATA
    /\ call.header = PezziProdotti
    /\ call.samples = PezziSamples

\* C19: for the example call every quantity pair of the ranking comes before
\* every date pair, with a strictly higher score.
C19_QuantityAboveDate ==
    PezziCall =>
        \A k, l \in 1..Len(call.result) :
            (call.result[k].field = quantity /\ call.result[l].field = date) =>
                /\ k < l
                /\ call.result[k].score > call.result[l].score

\* C19 witness: the example call without candidates, quantity first.
C19_Witness ==
    /\ PezziCall
    /\ ~call.candidates.given
    /\ call.result[1].field = quantity
    /\ \E l \in 2..Len(call.result) : call.result[l].field = date

\* The samples that are not blank once stripped.
NonBlank(samples) == {i \in 1..Len(samples) : strip(samples[i]) # <<>>}

\* The quotient is numerator / denominator, in lowest terms or not.
Equals(quotient, numerator, denominator) ==
    quotient.numerator * denominator = numerator * quotient.denominator

\* C20: numeric_ratio and date_like_ratio are in [0, 1] and are the number of
\* non-blank samples that parse as a float (decimal comma allowed), or hold a
\* date, over the number of samples given, blank ones included; without
\* samples all three values are 0; of "10", "20", "abc" two thirds are numeric.
C20_RatiosOverAllSamples ==
    call.op = "analyse_samples" =>
        LET samples == call.samples
            metadata == call.result
            numeric == {i \in NonBlank(samples) :
                           float_parses(replace_comma(strip(samples[i])))}
            dated == {i \in NonBlank(samples) : date_pattern_search(strip(samples[i]))}
            in_unit(quotient) ==
                /\ quotient.denominator > 0
                /\ 0 <= quotient.numerator
                /\ quotient.numerator <= quotient.denominator
        IN  /\ in_unit(metadata.numeric_ratio)
            /\ in_unit(metadata.date_like_ratio)
            /\ samples # <<>> =>
                   /\ Equals(metadata.numeric_ratio, Cardinality(numeric), Len(samples))
                   /\ Equals(metadata.date_like_ratio, Cardinality(dated), Len(samples))
            /\ samples = <<>> =>
                   /\ Equals(metadata.numeric_ratio, 0, 1)
                   /\ Equals(metadata.date_like_ratio, 0, 1)
                   /\ Equals(metadata.text_length, 0, 1)
            /\ samples = <<<<"1","0">>, <<"2","0">>, <<"a","b","c">>>> =>
                   Equals(metadata.numeric_ratio, 2, 3)

\* C20 witness: of three samples one is blank, one a number with a decimal
\* comma and one a date: both ratios are one third.
C20_Witness ==
    /\ call.op = "analyse_samples"
    /\ Len(call.samples) = 3
    /\ Cardinality(NonBlank(call.samples)) = 2
    /\ Equals(call.result.numeric_ratio, 1, 3)
    /\ Equals(call.result.date_like_ratio, 1, 3)
    /\ <<"1",",","5">> \in Range(call.samples)

----------------------------------------------------------------------------
(* Claims about the tokenizer, checked under SpecTokenize                  *)

Tokenized == pc = "called" /\ call.op = "_tokenize"

\* str.upper() on one character of the alphabet used here.
upper_char(c) ==
    IF c = DotlessI
    THEN "I"
    ELSE IF \E i \in 1..Len(LowerChars) : LowerChars[i] = c
         THEN UpperChars[CHOOSE i \in 1..Len(LowerChars) : LowerChars[i] = c]
         ELSE c

upper(s) == [i \in 1..Len(s) |-> upper_char(s[i])]

\* The characters of ASCII and of Latin-1 among those of a text.
Latin1Chars == TextChars \ {DotlessI}

\* C21 as stated: the tokens of every string are those of its upper-case
\* form, and the empty string (or None) has no token.
C21_TokenizeIgnoresCase ==
    Tokenized =>
        /\ call.result = _tokenize(upper(call.text))
        /\ (call.text = <<>> => call.result = <<>>)

\* C21 amended: the tokens of a string of ASCII and Latin-1 characters are
\* those of its upper-case form, and the empty string (or None) has no
\* token; a string with a dotless i is tokenized differently from its
\* upper-case form.
C21_TokenizeIgnoresLatin1Case ==
    Tokenized =>
        /\ Range(call.text) \subseteq Latin1Chars =>
               call.result = _tokenize(upper(call.text))
        /\ (call.text = <<>> => call.result = <<>>)

\* A text of Latin-1 characters with letters of both cases has been
\* tokenized, and it differs from its upper-case form.
C21_Witness ==
    /\ Tokenized
    /\ Range(call.text) \subseteq Latin1Chars
    /\ {"a", "B", "à"} \subseteq Range(call.text)
    /\ upper(call.text) # call.text
    /\ call.result # <<>>

\* The letters and digits of a text, and the characters \w accepts.
Alphanumerics == TextChars \ {"_", "-", " "}
WordCharacters == TextChars \ {"-", " "}

\* The maximal runs of characters of a set in a text, as pairs of positions.
MaximalRuns(text, chars) ==
    {span \in (1..Len(text)) \X (1..Len(text)) :
        /\ span[1] <= span[2]
        /\ \A i \in span[1]..span[2] : text[i] \in chars
        /\ (span[1] = 1 \/ text[span[1] - 1] \notin chars)
        /\ (span[2] = Len(text) \/ text[span[2] + 1] \notin chars)}

\* The tokens are the case-folded maximal runs, from left to right.
TokensAreRuns(tokens, text, chars) ==
    /\ Len(tokens) = Cardinality(MaximalRuns(text, chars))
    /\ \A span \in MaximalRuns(text, chars) :
           tokens[1 + Cardinality({r \in MaximalRuns(text, chars) : r[1] < span[1]})]
               = casefold(SubSeq(text, span[1], span[2]))

\* C22 as stated: the tokens are the maximal runs of letters and digits;
\* every other character, the underscore included, separates tokens and is
\* in none.
C22_TokensAreAlphanumericRuns ==
    Tokenized =>
        /\ TokensAreRuns(call.result, call.text, Alphanumerics)
        /\ \A k \in 1..Len(call.result) : "_" \notin Range(call.result[k])

\* C22 amended: the tokens are the case-folded maximal runs of word
\* characters, which are the letters, the digits and the underscore; every
\* other character separates tokens and is in none.
C22_TokensAreWordRuns ==
    Tokenized =>
        /\ TokensAreRuns(call.result, call.text, WordCharacters)
        /\ \A k \in 1..Len(call.result) :
               Range(call.result[k]) \subseteq
                   {casefold_char(c) : c \in WordCharacters}

\* A text with an underscore and a hyphen has been tokenized: the
\* underscore is inside a token, the hyphen in none.
C22_Witness ==
    /\ Tokenized
    /\ call.text = <<"à", "_", "-">>
    /\ call.result = << <<"à", "_">> >>

----------------------------------------------------------------------------
(* Claims about welcome_app.run, checked under SpecWelcome                 *)

RunEnded == pc \in {"returned", "raised"} /\ argv # <<>>

\* The arguments after the program, and those left once the control flags
\* and the tokens of the module invocation are removed.
RawArguments == Tail(argv)
CleanedArguments ==
    _strip_module_invocation_tokens(
        SelectSeq(RawArguments, LAMBDA token : token \notin control_flags))
WantsCli == \E i \in 1..Len(RawArguments) : RawArguments[i] \in {CliFlag, NoGuiFlag}

\* C23: the window is launched exactly when the arguments hold neither
\* --cli nor --no-gui and no CLI argument remains; otherwise the CLI runs
\* once, with the cleaned arguments, and the window is not launched; when the
\* launch raises GUIUnavailableError the CLI runs with the cleaned arguments.
C23_GuiUnlessCliRequested ==
    RunEnded =>
        /\ launch # "none" <=> (~WantsCli /\ CleanedArguments = <<>>)
        /\ (WantsCli \/ CleanedArguments # <<>>) =>
               cli_calls = <<CleanedArguments>> /\ launch = "none"
        /\ launch = "GUIUnavailableError" => cli_calls = <<CleanedArguments>>
        /\ launch = "returned" => cli_calls = <<>>

\* `python -m trumetrapla --gui` found no window toolkit and fell back to
\* the CLI without arguments.
C23_Witness ==
    /\ RunEnded
    /\ argv = <<python, DashM, trumetrapla, GuiFlag>>
    /\ launch = "GUIUnavailableError"
    /\ cli_calls = << <<>> >>

----------------------------------------------------------------------------
(* Claims about the metrics, checked under SpecMetrics                     *)

Grouped == pc = "grouped"

RecordsOf(name) == {i \in 1..Len(operations) : operations[i].employee = name}

\* The pieces and the hours of the records of a set, added up.
RECURSIVE Pieces(_)
Pieces(S) ==
    IF S = {} THEN 0
    ELSE LET i == CHOOSE i \in S : TRUE IN operations[i].quantity + Pieces(S \ {i})
RECURSIVE Hours(_)
Hours(S) ==
    IF S = {} THEN Zero
    ELSE LET i == CHOOSE i \in S : TRUE IN add(hours(operations[i]), Hours(S \ {i}))

\* q is the quotient of the pieces by the hours, 0 when there are no hours.
IsThroughput(q, pieces, worked) ==
    IF isnan(worked) THEN isnan(q)
    ELSE IF worked.numerator = 0 THEN q = Zero
    ELSE /\ ~isnan(q)
         /\ q.numerator * worked.numerator
                = pieces * worked.denominator * q.denominator

\* C24: group_by_employee returns one entry per employee, with the sum of
\* the employee's quantities and the quotient of that sum by the employee's
\* hours (0 without hours); no entry has a greater throughput than an entry
\* before it; the quantities of the entries add up to the total quantity of
\* summarize_operations.
C24_GroupByEmployeeRanksEmployees ==
    Grouped =>
        /\ {performances[k].entity : k \in 1..Len(performances)}
               = {operations[i].employee : i \in 1..Len(operations)}
        /\ \A k, l \in 1..Len(performances) :
               performances[k].entity = performances[l].entity => k = l
        /\ \A k \in 1..Len(performances) :
               /\ performances[k].total_quantity
                      = Pieces(RecordsOf(performances[k].entity))
               /\ IsThroughput(performances[k].throughput,
                               performances[k].total_quantity,
                               Hours(RecordsOf(performances[k].entity)))
        /\ \A k, l \in 1..Len(performances) :
               k < l => ~less(performances[k].throughput, performances[l].throughput)
        /\ sum([k \in 1..Len(performances) |-> performances[k].total_quantity])
               = summary.total_quantity

----------------------------------------------------------------------------
(* Claims about the main window, checked under SpecWindow                  *)

\* open_file has just loaded records.
FileLoaded == event.command = "open_file" /\ event.loaded

\* The keys of the extra mappings of the records of the window.
ExtraKeys ==
    UNION {{window.records[i].extra[j].key : j \in 1..Len(window.records[i].extra)} :
              i \in 1..Len(window.records)}

\* The positions of the column specs with a label / with a source.
SpecsLabelled(key) ==
    {i \in 1..Len(window.column_specs) : window.column_specs[i].label = key}
SpecsOfSource(key) ==
    {i \in 1..Len(window.column_specs) : window.column_specs[i].source = key}

\* The spec at a position has an identifier no other spec has, is visible
\* and can be grouped on.
Registered(i) ==
    LET spec == window.column_specs[i]
    IN  /\ \A j \in 1..Len(window.column_specs) :
               j # i => window.column_specs[j].identifier # spec.identifier
        /\ spec.identifier \in Range(window.visible_columns)
        /\ spec.grouping_key \in Range(window.grouping_accessors)

\* C25, as stated: once open_file has loaded records, every key of a
\* record's extra mapping has exactly one ColumnSpec whose label is the key;
\* the identifier of that spec is unique among all column identifiers, is in
\* state.visible_columns, and its grouping_key is a key of
\* state.grouping_accessors.
C25_ExtraColumnHasTheOnlySpecOfItsLabel ==
    FileLoaded =>
        \A key \in ExtraKeys :
            /\ Cardinality(SpecsLabelled(key)) = 1
            /\ \A i \in SpecsLabelled(key) : Registered(i)

\* C25, amended: once open_file has loaded records, every key of a record's
\* extra mapping has exactly one ColumnSpec whose source is the key, and the
\* label of that spec is the key (a canonical column may carry the same
\* label); the identifier of that spec is unique among all column
\* identifiers, is in state.visible_columns, and its grouping_key is a key
\* of state.grouping_accessors.
C25_ExtraColumnHasOneSpecOfItsOwn ==
    FileLoaded =>
        \A key \in ExtraKeys :
            /\ Cardinality(SpecsOfSource(key)) = 1
            /\ \A i \in SpecsOfSource(key) :
                   /\ window.column_specs[i].label = key
                   /\ Registered(i)

\* C25 witness: the loaded records have the extra columns "Note", "Note!"
\* and "note 1", whose labels give the same token "note"; their specs got
\* the identifiers extra_note, extra_note_1 and extra_note_1_1.
C25_Witness ==
    /\ FileLoaded
    /\ ExtraKeys = {Note, NoteBang, Note1}
    /\ SubSeq(identifiers_of(window.column_specs), 9, 11)
           = <<extra_prefix \o <<"n","o","t","e">>,
               extra_prefix \o <<"n","o","t","e","_","1">>,
               extra_prefix \o <<"n","o","t","e","_","1","_","1">>>>

\* sub can be had from seq by leaving elements out.
RECURSIVE IsSubsequence(_, _)
IsSubsequence(sub, seq) ==
    IF sub = <<>> THEN TRUE
    ELSE IF seq = <<>> THEN FALSE
    ELSE IF Head(sub) = Head(seq) THEN IsSubsequence(Tail(sub), Tail(seq))
    ELSE IsSubsequence(sub, Tail(seq))

\* Every filter shows its default label.
FiltersReset ==
    \A c \in 1..Len(window.filter_controls) :
        window.filter_controls[c].variable = window.filter_controls[c].default_label

\* C26: after any sequence of commands of the window, state.filtered_records
\* holds only records of state.records, in the same relative order; right
\* after an open_file that loaded records, state.records is the loaded list,
\* state.filtered_records equals it and every filter is back to its default
\* label.
C26_FilteredRecordsAreRecordsInOrder ==
    /\ IsSubsequence(window.filtered_records, window.records)
    /\ FileLoaded =>
           /\ window.records = event.records
           /\ window.filtered_records = window.records
           /\ FiltersReset

\* C26 witness: the third command picked a value in a filter of a window
\* that shows three loaded records, and the filter keeps the first and the
\* third of them.
C26_Witness ==
    /\ event.command = "select_filter"
    /\ event.count = MaxCommands
    /\ Len(window.records) = 3
    /\ ~FiltersReset
    /\ window.filtered_records = <<window.records[1], window.records[3]>>
    /\ window.records[2] \notin Range(window.filtered_records)

\* open_file has just ended without loading records.
FileNotLoaded == event.command = "open_file" /\ ~event.loaded

\* C27: when open_file does not complete a load (the file dialog is
\* cancelled, the loader raises FileNotFoundError, the loader raises
\* ColumnMappingError and no mapping comes back, or the retried load fails),
\* state.records, state.filtered_records, state.file_path,
\* state.column_specs and state.visible_columns are what they were before
\* the command.
C27_FailedOpenFileChangesNothing ==
    FileNotLoaded =>
        /\ window.records = event.before.records
        /\ window.filtered_records = event.before.filtered_records
        /\ window.file_path = event.before.file_path
        /\ window.column_specs = event.before.column_specs
        /\ window.visible_columns = event.before.visible_columns

\* C27 witness: open_file ended without a load and without an error in a
\* window that showed a file with extra columns and a filter that hides
\* some of its records.
C27_Witness ==
    /\ FileNotLoaded
    /\ event.error = ""
    /\ event.before.file_path # None
    /\ Len(event.before.column_specs) > Len(_canonical_column_specs)
    /\ event.before.filtered_records # <<>>
    /\ event.before.filtered_records # event.before.records

----------------------------------------------------------------------------
(* A claim about the resolved columns, checked under SpecResolve           *)

\* C28: every value of the mapping suggest_column_mapping returns is an
\* element of the column list it was given, in the spelling of the list,
\* whichever strategy (explicit mapping, alias, keyword) found it.
C28_ResolvedValuesAreColumns ==
    pc = "returned" =>
        \A field \in DOMAIN resolved :
            /\ resolved[field] \in Range(columns)
            /\ calls[field].via \in {"explicit", "alias", "keyword"}

\* C28 witness: one call resolved a field through an alias and another
\* through a keyword, each to a header that is not its own token (" DATA "
\* for "data", "Processo principale" for "processo").
C28_Witness ==
    /\ pc = "returned"
    /\ \E field \in DOMAIN resolved :
           /\ calls[field].via = "alias"
           /\ resolved[field] = PaddedData
           /\ _normalize_token(resolved[field]) # resolved[field]
    /\ \E field \in DOMAIN resolved :
           /\ calls[field].via = "keyword"
           /\ _normalize_token(resolved[field]) # resolved[field]

----------------------------------------------------------------------------
(* A claim about the renamed table, checked under SpecLoad                 *)

\* The column names of the table after the rename of line 123.
RenamedColumns == Range(renamed(columns, resolved))

\* C29: whenever suggest_column_mapping reports no missing field inside
\* load_operations_from_excel, the renamed table has a column for each of
\* the five required fields, whatever the resolved mapping (two fields may
\* share a column), and loading ends with a list of records or with
\* ColumnMappingError, never with a failed lookup of a required column.
C29_RenamedTableHasRequiredColumns ==
    Suggested /\ missing = <<>> =>
        /\ \A field \in Range(REQUIRED_FIELDS) : field \in RenamedColumns
        /\ \/ outcome.kind = "return"
           \/ outcome.kind = "raise" /\ outcome.error = "ColumnMappingError"

----------------------------------------------------------------------------
(* A claim about the order of the columns, checked under SpecGuesser       *)

\* The columns of the call in another order.
Reordered(order) == [i \in 1..Len(call.columns) |-> call.columns[order[i]]]

\* What the loop of guess tracked over the columns of the call.
Tracked == guess_loop(classifier, call.field, call.columns, call.already_assigned,
                      1, NoBest)

\* C30: the header and the score guess returns do not depend on the order of
\* the columns: every reordering of the same columns with the same
\* already_assigned gives the same pair; the best and the second best score
\* the loop tracks are the two highest scores, a score counted as often as
\* it occurs, so that two columns with the best score always give None.
C30_GuessIgnoresColumnOrder ==
    call.op = "guess" =>
        LET same(order) ==
                guess(classifier, call.field, Reordered(order), call.already_assigned)
                    = call.result
            tracks(scores, tracked) ==
                LET winners == {i \in Eligible : scores[i] = Highest(scores, Eligible)}
                IN  /\ tracked.best_score = Highest(scores, Eligible)
                    /\ Eligible # {} =>
                           tracked.second_score
                               = Highest(scores, Eligible \ {CHOOSE i \in winners : TRUE})
                    /\ Cardinality(winners) > 1 =>
                           call.result = NotGuessed(tracked.best_score)
        IN  /\ \A order \in Permutations(1..Len(call.columns)) : same(order)
            /\ tracks(ColumnScores, Tracked)

\* C30 witness: of three eligible columns the first and the last have the
\* same score, which is the best and above the floor of -20, and guess
\* returned None with that score.
C30_Witness ==
    /\ call.op = "guess"
    /\ Cardinality(Eligible) = 3
    /\ LET tied(scores) ==
               /\ scores[1] = scores[3]
               /\ scores[1] > scores[2]
               /\ scores[1] >= Floor
               /\ call.result = NotGuessed(scores[1])
       IN  tied(ColumnScores)

====
